---------------------------- MODULE Spec2Model ----------------------------
(***************************************************************************)
(* A model of LexAssist's document drafting and research aggregation.     *)
(*                                                                         *)
(*   SpecDraft   CaseFileDraftingAgent.draft_case_file                     *)
(*               (src/case_file_drafting_agent.py), step by step           *)
(*   SpecFill    CaseFileDraftingAgent._fill_template on token strings     *)
(*   SpecApi     CaseFileDrafter.draft_case_file                           *)
(*               (src/api/case_file_drafter.py)                            *)
(*   SpecAgg     LegalDataAggregator.search_law_sections and               *)
(*               search_case_history (src/legal_backend.py)                *)
(*                                                                         *)
(* A text is a sequence of tokens: "[" and "]", a word (upper-case or not, *)
(* WordTokens), one space " ", one newline "\n", and any other string,     *)
(* which stands for a piece of text that holds no placeholder, no [DATE]   *)
(* and no run of spaces or newlines.  The empty text is << >>.             *)
(***************************************************************************)
EXTENDS Integers, Sequences, FiniteSets, TLC

VARIABLES
    pc,          \* position of draft_case_file: idle, validated, extracted, generated, filled, returned, raised
    args,        \* the arguments of the call in progress
    extracted,   \* the local `entities` of draft_case_file
    document_sections,  \* the local `document_sections`
    document_content,   \* the local `document_content`
    error,       \* the exception that left the call, "none" if none did
    result,      \* what draft_case_file returned, the empty dict before it returns
    fill,        \* _fill_template called on its own: arguments and result
    api,         \* CaseFileDrafter.draft_case_file: arguments and result
    agg,         \* LegalDataAggregator: connectors, loop position, all_results, result
    bert,        \* InLegalBERTProcessor: the class attribute _instance, the objects, the constructing threads
    cit,         \* _extract_citations of the two brief analyzers: argument and outcome
    syn,         \* the analysis synthesizers: arguments and the lists they return
    gsq,         \* _generate_search_queries of the two brief analyzers: arguments and result
    dom,         \* _identify_legal_domains: arguments and result
    srch,        \* _search_law_sections / _search_case_histories: loop position and list
    ctor,        \* CaseFileDraftingAgent(): the template files, the templates loaded so far, the outcome
    norm,        \* LegalBriefAnalyzer._preprocess_text of legal_backend.py: argument and results
    refs         \* _extract_acts_sections of the two brief analyzers: argument and results

\* the state of the drafting agent, the drafter and the aggregator
drafterVars == <<pc, args, extracted, document_sections, document_content, error, result,
                 fill, api, agg>>

\* the state of the brief analyzers and the model singleton
analyzerVars == <<bert, cit, syn, gsq, dom, srch>>

\* the state of the constructor, the normalizer and the reference extractors
textVars == <<ctor, norm, refs>>

vars == <<drafterVars, analyzerVars, textVars>>

----------------------------------------------------------------------------
(* Python values *)

\* "" and [] and {} are false, everything else true
Truthy(t) == t # << >>

\* dict.get(k) with a default
Get(d, k, default) == IF k \in DOMAIN d THEN d[k] ELSE default

\* the dict with no key
EmptyDict == << >>

\* list(dict.fromkeys(s)): the first occurrence of each element, in order
RECURSIVE FromKeys(_)
FromKeys(s) ==
    IF s = << >> THEN << >>
    ELSE LET front == FromKeys(SubSeq(s, 1, Len(s) - 1))
             last  == s[Len(s)]
         IN  IF \E i \in 1..Len(front) : front[i] = last THEN front
             ELSE Append(front, last)

\* s[:n]
Take(s, n) == SubSeq(s, 1, IF Len(s) < n THEN Len(s) ELSE n)

\* the concatenation of the texts ts[lo..hi], by halves
RECURSIVE Flatten(_, _, _)
Flatten(ts, lo, hi) ==
    IF lo > hi THEN << >>
    ELSE IF lo = hi THEN ts[lo]
    ELSE LET mid == (lo + hi) \div 2
         IN  Flatten(ts, lo, mid) \o Flatten(ts, mid + 1, hi)

\* the concatenation of a sequence of texts
Concat(ts) == Flatten(ts, 1, Len(ts))

\* the elements of a sequence
Range(s) == {s[i] : i \in 1..Len(s)}

----------------------------------------------------------------------------
(* CaseFileDraftingAgent.__init__ *)

\* the keys of self.templates
TemplateTypes ==
    {"petition", "reply", "rejoinder", "affidavit", "legal_notice", "written_statement"}

\* self.document_structures
document_structures ==
    [petition |-> <<"title", "jurisdiction", "parties", "facts", "grounds",
                    "legal_provisions", "prayer", "verification">>,
     reply |-> <<"title", "parties", "preliminary_objections", "facts_rebuttal",
                 "legal_arguments", "prayer", "verification">>,
     rejoinder |-> <<"title", "parties", "rebuttal_to_reply", "additional_facts",
                     "legal_arguments", "prayer", "verification">>,
     affidavit |-> <<"title", "deponent_details", "verification", "statements",
                     "declaration", "attestation">>,
     legal_notice |-> <<"sender_details", "recipient_details", "subject", "facts",
                        "legal_provisions", "demand", "timeline", "consequences">>,
     written_statement |-> <<"title", "parties", "preliminary_objections", "facts",
                             "defense_arguments", "legal_provisions", "prayer",
                             "verification">>]

\* self.document_structures.get(document_type, [])
StructureOf(dt) == Get(document_structures, dt, << >>)

\* every section name of some structure
SectionNames == UNION {Range(document_structures[dt]) : dt \in DOMAIN document_structures}

----------------------------------------------------------------------------
(* Tokens *)

\* the date that datetime.now().strftime("%d/%m/%Y") gives, as one token
Today == "03/11/2026"

\* [A-Z_]+ : an upper-case word or an underscore
UpperTokens ==
    {"_", "PLACEHOLDER", "DATE", "A", "B", "CONTENT", "STATEMENT"}
        \cup {"TITLE", "JURISDICTION", "PARTIES", "FACTS", "GROUNDS", "LEGAL_PROVISIONS",
              "PRAYER", "VERIFICATION", "PRELIMINARY_OBJECTIONS", "FACTS_REBUTTAL",
              "LEGAL_ARGUMENTS", "REBUTTAL_TO_REPLY", "ADDITIONAL_FACTS",
              "DEPONENT_DETAILS", "STATEMENTS", "DECLARATION", "ATTESTATION",
              "SENDER_DETAILS", "RECIPIENT_DETAILS", "SUBJECT", "DEMAND", "TIMELINE",
              "CONSEQUENCES", "DEFENSE_ARGUMENTS"}

\* \w+ : a word, upper-case or not ("1", "2", "3" and "a" are the others)
WordTokens == UpperTokens \cup {"1", "2", "3", "a"}

\* section.upper()
Upper(section) ==
    CASE section = "title" -> "TITLE"
      [] section = "jurisdiction" -> "JURISDICTION"
      [] section = "parties" -> "PARTIES"
      [] section = "facts" -> "FACTS"
      [] section = "grounds" -> "GROUNDS"
      [] section = "legal_provisions" -> "LEGAL_PROVISIONS"
      [] section = "prayer" -> "PRAYER"
      [] section = "verification" -> "VERIFICATION"
      [] section = "preliminary_objections" -> "PRELIMINARY_OBJECTIONS"
      [] section = "facts_rebuttal" -> "FACTS_REBUTTAL"
      [] section = "legal_arguments" -> "LEGAL_ARGUMENTS"
      [] section = "rebuttal_to_reply" -> "REBUTTAL_TO_REPLY"
      [] section = "additional_facts" -> "ADDITIONAL_FACTS"
      [] section = "deponent_details" -> "DEPONENT_DETAILS"
      [] section = "statements" -> "STATEMENTS"
      [] section = "declaration" -> "DECLARATION"
      [] section = "attestation" -> "ATTESTATION"
      [] section = "sender_details" -> "SENDER_DETAILS"
      [] section = "recipient_details" -> "RECIPIENT_DETAILS"
      [] section = "subject" -> "SUBJECT"
      [] section = "demand" -> "DEMAND"
      [] section = "timeline" -> "TIMELINE"
      [] section = "consequences" -> "CONSEQUENCES"
      [] section = "defense_arguments" -> "DEFENSE_ARGUMENTS"
      [] section = "content" -> "CONTENT"
      [] section = "a" -> "A"
      [] section = "b" -> "B"
      [] section = "rejoinder" -> "REJOINDER"
      [] section = "legal_notice" -> "LEGAL_NOTICE"
      [] section = "written_statement" -> "WRITTEN_STATEMENT"
      [] OTHER -> section

\* f"[{section.upper()}_PLACEHOLDER]"
Placeholder(section) == <<"[", Upper(section), "_", "PLACEHOLDER", "]">>

----------------------------------------------------------------------------
(* CaseFileDraftingAgent._load_template: the built-in templates, which are *)
(* what the FileNotFoundError branch returns (the repository ships no      *)
(* templates/ directory).  A run of sixteen spaces is written as a run of  *)
(* two; a line of template text without placeholder is one token.          *)

Indent == <<" ", " ">>
Line(text) == Indent \o text \o <<"\n">>
Blank == Indent \o <<"\n">>
TemplateHead(lines) == <<"\n">> \o Concat(lines) \o Indent
DateToken == <<"[", "DATE", "]">>

PetitionTemplate ==
    TemplateHead(<<
        Line(<<"IN THE [COURT NAME]">>), Blank,
        Line(<<"[JURISDICTION]">>), Blank,
        Line(<<"[CASE NUMBER]">>), Blank,
        Line(<<"IN THE MATTER OF:">>), Blank,
        Line(<<"[PETITIONER NAME]", " ", " ", "... PETITIONER">>), Blank,
        Line(<<"VERSUS">>), Blank,
        Line(<<"[RESPONDENT NAME]", " ", " ", "... RESPONDENT">>), Blank,
        Line(<<"PETITION UNDER [RELEVANT LAW/SECTION]">>), Blank,
        Line(<<"MOST RESPECTFULLY SHOWETH:">>), Blank,
        Line(<<"1. PARTIES:">>),
        Line(<<" ", " ", " ">> \o Placeholder("parties")), Blank,
        Line(<<"2. JURISDICTION:">>),
        Line(<<" ", " ", " ">> \o Placeholder("jurisdiction")), Blank,
        Line(<<"3. FACTS OF THE CASE:">>),
        Line(<<" ", " ", " ">> \o Placeholder("facts")), Blank,
        Line(<<"4. GROUNDS:">>),
        Line(<<" ", " ", " ">> \o Placeholder("grounds")), Blank,
        Line(<<"5. LEGAL PROVISIONS APPLICABLE:">>),
        Line(<<" ", " ", " ">> \o Placeholder("legal_provisions")), Blank,
        Line(<<"6. PRAYER:">>),
        Line(<<" ", " ", " ">> \o Placeholder("prayer")), Blank,
        Line(<<"VERIFICATION:">>), Blank,
        Line(<<"Verified at [PLACE] on this ">> \o DateToken
               \o <<" that the contents of the above petition are true">>), Blank,
        Line(<<"[PETITIONER/ADVOCATE NAME]">>) >>)

ReplyTemplate ==
    TemplateHead(<<
        Line(<<"IN THE [COURT NAME]">>), Blank,
        Line(<<"[JURISDICTION]">>), Blank,
        Line(<<"[CASE NUMBER]">>), Blank,
        Line(<<"IN THE MATTER OF:">>), Blank,
        Line(<<"[PLAINTIFF/PETITIONER NAME]", " ", " ", "... PLAINTIFF/PETITIONER">>), Blank,
        Line(<<"VERSUS">>), Blank,
        Line(<<"[DEFENDANT/RESPONDENT NAME]", " ", " ", "... DEFENDANT/RESPONDENT">>), Blank,
        Line(<<"REPLY ON BEHALF OF THE [DEFENDANT/RESPONDENT]">>), Blank,
        Line(<<"MOST RESPECTFULLY SHOWETH:">>), Blank,
        Line(<<"1. PARTIES:">>),
        Line(<<" ", " ", " ">> \o Placeholder("parties")), Blank,
        Line(<<"2. PRELIMINARY OBJECTIONS:">>),
        Line(<<" ", " ", " ">> \o Placeholder("preliminary_objections")), Blank,
        Line(<<"3. REPLY TO FACTS:">>),
        Line(<<" ", " ", " ">> \o Placeholder("facts_rebuttal")), Blank,
        Line(<<"4. LEGAL ARGUMENTS:">>),
        Line(<<" ", " ", " ">> \o Placeholder("legal_arguments")), Blank,
        Line(<<"5. PRAYER:">>),
        Line(<<" ", " ", " ">> \o Placeholder("prayer")), Blank,
        Line(<<"VERIFICATION:">>), Blank,
        Line(<<"Verified at [PLACE] on this ">> \o DateToken
               \o <<" that the contents of the above reply are true">>), Blank,
        Line(<<"[DEFENDANT/RESPONDENT/ADVOCATE NAME]">>) >>)

AffidavitTemplate ==
    TemplateHead(<<
        Line(<<"BEFORE THE [COURT/AUTHORITY NAME]">>), Blank,
        Line(<<"[JURISDICTION]">>), Blank,
        Line(<<"[CASE NUMBER]">>), Blank,
        Line(<<"AFFIDAVIT">>), Blank,
        Line(<<"I, [DEPONENT NAME], ... do hereby solemnly affirm and declare as under:">>),
        Blank,
        Line(<<"1. ", "[", "STATEMENT", "_", "1", "_", "PLACEHOLDER", "]">>), Blank,
        Line(<<"2. ", "[", "STATEMENT", "_", "2", "_", "PLACEHOLDER", "]">>), Blank,
        Line(<<"3. ", "[", "STATEMENT", "_", "3", "_", "PLACEHOLDER", "]">>), Blank,
        Line(<<"VERIFICATION:">>), Blank,
        Line(<<"I, the deponent above named, do hereby verify ...">>), Blank,
        Line(<<"Verified at [PLACE] on this ">> \o DateToken \o <<".">>), Blank,
        Line(<<"DEPONENT">>), Blank,
        Line(<<"ATTESTATION:">>), Blank,
        Line(<<"Solemnly affirmed and signed before me on this ">> \o DateToken
               \o <<" at [PLACE].">>), Blank,
        Line(<<"NOTARY PUBLIC/OATH COMMISSIONER">>) >>)

\* the f-string of the else branch
GenericTemplate(template_name) ==
    TemplateHead(<<
        Line(<<"[TITLE OF THE ">> \o <<Upper(template_name)>> \o <<"]">>), Blank,
        Line(Placeholder("content")), Blank,
        Line(DateToken), Blank,
        Line(<<"[SIGNATURE]">>) >>)

_load_template(template_name) ==
    CASE template_name = "petition" -> PetitionTemplate
      [] template_name = "reply" -> ReplyTemplate
      [] template_name = "affidavit" -> AffidavitTemplate
      [] OTHER -> GenericTemplate(template_name)

\* self.templates
templates == [dt \in TemplateTypes |-> _load_template(dt)]

----------------------------------------------------------------------------
(* CaseFileDraftingAgent._fill_template *)

\* the end of the run of tokens of class C that starts at i (i - 1 if there is none)
RECURSIVE RunEnd(_, _, _)
RunEnd(s, i, C) == IF i <= Len(s) /\ s[i] \in C THEN RunEnd(s, i + 1, C) ELSE i - 1

\* the start of the run of tokens of class C that ends at i (i + 1 if there is none)
RECURSIVE RunStart(_, _, _)
RunStart(s, i, C) == IF i >= 1 /\ s[i] \in C THEN RunStart(s, i - 1, C) ELSE i + 1

\* s from position i on with every match replaced by new, where ends maps the
\* start of each match to its last position: the left-to-right scan of
\* str.replace and re.sub, which resumes after the end of each match it takes
RECURSIVE Splice(_, _, _, _)
Splice(s, ends, new, i) ==
    LET next == {j \in DOMAIN ends : j >= i}
    IN  IF next = {} THEN SubSeq(s, i, Len(s))
        ELSE LET m == CHOOSE j \in next : \A k \in next : j <= k
             IN  SubSeq(s, i, m - 1) \o new \o Splice(s, ends, new, ends[m] + 1)

\* s with every match replaced by new, where MatchEnd(i) is the last position of
\* the match that starts at i, or 0
Substitute(s, MatchEnd(_), new) ==
    LET starts == {i \in 1..Len(s) : MatchEnd(i) # 0}
    IN  Splice(s, [i \in starts |-> MatchEnd(i)], new, 1)

\* str.replace(old, new), for a non-empty old
Replace(s, old, new) ==
    LET MatchEnd(i) ==
            IF /\ s[i] = old[1]
               /\ i + Len(old) - 1 <= Len(s)
               /\ SubSeq(s, i, i + Len(old) - 1) = old
            THEN i + Len(old) - 1 ELSE 0
    IN  Substitute(s, MatchEnd, new)

\* the position of the "]" that ends a match of \[\w+_PLACEHOLDER\] starting at i, or 0
PlaceholderMatchEnd(s, i) ==
    IF s[i] # "[" THEN 0
    ELSE LET e == RunEnd(s, i + 1, WordTokens)
         IN  IF /\ e - i >= 3
                /\ s[e - 1] = "_"
                /\ s[e] = "PLACEHOLDER"
                /\ e + 1 <= Len(s)
                /\ s[e + 1] = "]"
             THEN e + 1
             ELSE 0

\* re.sub(r'\[\w+_PLACEHOLDER\]', '', s)
RemovePlaceholders(s) ==
    LET MatchEnd(i) == PlaceholderMatchEnd(s, i)
    IN  Substitute(s, MatchEnd, << >>)

\* re.sub(c{min}, new, s): every min tokens c in a row become new
CollapseExactly(s, c, min, new) ==
    LET run(i) == RunEnd(s, i, {c}) - RunStart(s, i, {c}) + 1
        offset(i) == i - RunStart(s, i, {c})
        MatchEnd(i) ==
            IF s[i] = c /\ offset(i) % min = 0 /\ offset(i) + min <= run(i)
            THEN i + min - 1 ELSE 0
    IN  Substitute(s, MatchEnd, new)

\* re.sub(c{min,}, new, s): every maximal run of at least min tokens c becomes new
Collapse(s, c, min, new) ==
    LET MatchEnd(i) ==
            IF s[i] = c /\ (i = 1 \/ s[i - 1] # c) /\ RunEnd(s, i, {c}) - i + 1 >= min
            THEN RunEnd(s, i, {c}) ELSE 0
    IN  Substitute(s, MatchEnd, new)

\* re.sub(r'\n{3,}', '\n\n', s)
CollapseNewlines(s) == Collapse(s, "\n", 3, <<"\n", "\n">>)

\* re.sub(r' {2,}', ' ', s)
CollapseSpaces(s) == Collapse(s, " ", 2, <<" ">>)

\* the whitespace that str.strip() removes
SpaceTokens == {" ", "\n"}

\* str.strip()
Strip(s) == SubSeq(s, RunEnd(s, 1, SpaceTokens) + 1, RunStart(s, Len(s), SpaceTokens) - 1)

\* the loop `for section, content in sections.items()`, from item i on
RECURSIVE ReplaceSections(_, _, _)
ReplaceSections(template, items, i) ==
    IF i > Len(items) THEN template
    ELSE ReplaceSections(Replace(template, Placeholder(items[i][1]), items[i][2]),
                         items, i + 1)

\* the clean-up of extra whitespace and newlines, and the final strip
CleanUp(template) == Strip(CollapseSpaces(CollapseNewlines(template)))

\* _fill_template, where items is sections.items() and the template is
\* self.templates.get(document_type, "")
FillTemplate(template, items) ==
    CleanUp(Replace(RemovePlaceholders(ReplaceSections(template, items, 1)),
                    DateToken, <<Today>>))

_fill_template(document_type, items) ==
    FillTemplate(Get(templates, document_type, << >>), items)

----------------------------------------------------------------------------
(* Briefs.  A brief is its text together with what the regular expressions *)
(* of _extract_potential_parties and _extract_entities find in it          *)
(* (re.findall, per pattern, in order) and the entities spaCy reports for   *)
(* it (doc.ents as <<label, text>> pairs).                                  *)

NoMatches == [pet |-> << << >>, << >> >>, resp |-> << << >>, << >> >>,
              versus |-> << >>, money |-> << >>, ents |-> << >>]

Briefs ==
    { [text |-> ""] @@ NoMatches,
      [text |-> "A vs B. Breach of contract."] @@ NoMatches,
      [text |-> "Ram Kumar versus Acme Ltd.",
       versus |-> << <<"Ram Kumar", "Acme Ltd">> >>,
       ents |-> << <<"PERSON", "Ram Kumar">>, <<"ORG", "Acme Ltd">> >>] @@ NoMatches,
      [text |-> "The petitioner is Ram Kumar . The respondent is Acme Ltd of Delhi.",
       pet |-> << <<"Ram Kumar ">>, << >> >>,
       resp |-> << <<"Acme Ltd of Delhi">>, << >> >>,
       ents |-> << <<"PERSON", "Ram Kumar">>, <<"ORG", "Acme Ltd">>,
                   <<"GPE", "Delhi">> >>] @@ NoMatches,
      [text |-> "Ram Kumar versus Acme Ltd. The petitioner, Ram Kumar, paid Rs. 500 on 1 May 2024 and again Rs. 500.",
       pet |-> << <<"Ram Kumar">>, << >> >>,
       versus |-> << <<"Ram Kumar", "Acme Ltd">> >>,
       money |-> << <<"500", "">>, <<"500", "">> >>,
       ents |-> << <<"PERSON", "Ram Kumar">>, <<"ORG", "Acme Ltd">>,
                   <<"PERSON", "Ram Kumar">>, <<"DATE", "1 May 2024">> >>] @@ NoMatches,
      [text |-> "Ram Kumar versus Acme Ltd. Sita Devi vs Bharat Corp in Delhi.",
       versus |-> << <<"Ram Kumar", "Acme Ltd">>, <<"Sita Devi", "Bharat Corp in Delhi">> >>,
       ents |-> << <<"PERSON", "Ram Kumar">>, <<"PERSON", "Sita Devi">>,
                   <<"LOC", "Delhi">> >>] @@ NoMatches,
      [text |-> "Ab vs Cd. Acme Ltd is the respondent.",
       resp |-> << << >>, <<"Acme Ltd is">> >>,
       versus |-> << <<"Ab", "Cd">> >>,
       ents |-> << <<"ORG", "Acme Ltd">> >>] @@ NoMatches }

\* str.strip() of a regular-expression group
StripName(m) ==
    CASE m = "Ram Kumar " -> "Ram Kumar"
      [] m = " Sita Devi" -> "Sita Devi"
      [] OTHER -> m

\* len() of a stripped name
NameLen(name) ==
    CASE name = "" -> 0
      [] name \in {"Ab", "Cd"} -> 2
      [] name = "Acme Ltd" -> 8
      [] name \in {"Ram Kumar", "Sita Devi"} -> 9
      [] name = "Acme Ltd is" -> 11
      [] name = "Acme Ltd of Delhi" -> 17
      [] name = "Bharat Corp in Delhi" -> 20

\* `org in name` for an organization and a party name
IsSubstring(org, name) ==
    \/ org = name
    \/ <<org, name>> \in {<<"Acme Ltd", "Acme Ltd is">>, <<"Acme Ltd", "Acme Ltd of Delhi">>}

\* the words of each pattern that the code tests with `"plaintiff" in pattern`
\* and `"defendant" in pattern`: both petitioner patterns hold "plaintiff" and
\* both respondent patterns hold "defendant"
petitioner_patterns ==
    << {"petitioner", "plaintiff", "appellant", "applicant"},
       {"petitioner", "plaintiff", "appellant", "applicant"} >>
respondent_patterns ==
    << {"respondent", "defendant", "opposite party"},
       {"respondent", "defendant", "opposite party"} >>

\* the matches that pass `if match and len(match) > 3`, stripped
KeptMatches(ms) ==
    LET stripped == [i \in 1..Len(ms) |-> StripName(ms[i])]
    IN  SelectSeq(stripped, LAMBDA m : m # "" /\ NameLen(m) > 3)

\* the loop over one list of patterns: what is appended to parties[first] when the
\* pattern holds `word`, and to parties[other] when it does not
MatchesInto(patterns, found, word, holds) ==
    Concat([i \in 1..Len(patterns) |->
              IF (word \in patterns[i]) = holds THEN KeptMatches(found[i]) ELSE << >>])

\* the loop `for match in versus_matches`, from match i on
RECURSIVE VersusLoop(_, _, _)
VersusLoop(parties, versus_matches, i) ==
    IF i > Len(versus_matches) THEN parties
    ELSE LET first_party  == StripName(versus_matches[i][1])
             second_party == StripName(versus_matches[i][2])
             p1 == IF /\ first_party # "" /\ NameLen(first_party) > 3
                      /\ ~Truthy(parties.petitioners) /\ ~Truthy(parties.plaintiffs)
                   THEN [parties EXCEPT !.petitioners = Append(@, first_party)]
                   ELSE parties
             p2 == IF /\ second_party # "" /\ NameLen(second_party) > 3
                      /\ ~Truthy(p1.respondents) /\ ~Truthy(p1.defendants)
                   THEN [p1 EXCEPT !.respondents = Append(@, second_party)]
                   ELSE p1
         IN  VersusLoop(p2, versus_matches, i + 1)

\* CaseFileDraftingAgent._extract_potential_parties
_extract_potential_parties(brief) ==
    LET keyword == [petitioners |-> MatchesInto(petitioner_patterns, brief.pet, "plaintiff", FALSE),
                    plaintiffs  |-> MatchesInto(petitioner_patterns, brief.pet, "plaintiff", TRUE),
                    respondents |-> MatchesInto(respondent_patterns, brief.resp, "defendant", FALSE),
                    defendants  |-> MatchesInto(respondent_patterns, brief.resp, "defendant", TRUE)]
        merged == VersusLoop(keyword, brief.versus, 1)
    IN  [key \in DOMAIN merged |-> FromKeys(merged[key])]

\* the texts of the spaCy entities with a label in labels, in order
EntityTexts(ents, labels) ==
    LET hits == SelectSeq(ents, LAMBDA e : e[1] \in labels)
    IN  [i \in 1..Len(hits) |-> hits[i][2]]

\* f"Rs. {amount}"
Rs(amount) ==
    CASE amount = "500" -> "Rs. 500"
      [] amount = "1,000" -> "Rs. 1,000"

\* the loop `for match in money_matches`, from match i on
RECURSIVE MoneyLoop(_, _, _)
MoneyLoop(monetary_values, money_matches, i) ==
    IF i > Len(money_matches) THEN monetary_values
    ELSE LET amount == IF money_matches[i][1] # "" THEN money_matches[i][1]
                       ELSE money_matches[i][2]
         IN  MoneyLoop(IF amount # "" /\ amount \notin Range(monetary_values)
                       THEN Append(monetary_values, Rs(amount))
                       ELSE monetary_values,
                       money_matches, i + 1)

\* CaseFileDraftingAgent._extract_entities
_extract_entities(brief) ==
    [persons |-> FromKeys(EntityTexts(brief.ents, {"PERSON"})),
     organizations |-> FromKeys(EntityTexts(brief.ents, {"ORG"})),
     dates |-> FromKeys(EntityTexts(brief.ents, {"DATE"})),
     locations |-> FromKeys(EntityTexts(brief.ents, {"GPE", "LOC"})),
     monetary_values |-> MoneyLoop(FromKeys(EntityTexts(brief.ents, {"MONEY"})),
                                   brief.money, 1),
     potential_parties |-> _extract_potential_parties(brief)]

----------------------------------------------------------------------------
(* The section generators of CaseFileDraftingAgent.  brief_analysis and    *)
(* analysis are dicts (functions on their keys), info is                   *)
(* `additional_info or {}`; law sections and case histories are records    *)
(* with the keys the generators read.                                      *)

\* info.get(key), None counting as the empty text
InfoGet(info, key) == Get(info, key, << >>)

\* brief_analysis.get("domains", ["general"])
Domains(brief_analysis) == Get(brief_analysis, "domains", <<"general">>)

\* `x in list`
In(x, list) == x \in Range(list)

\* f"{i}. {text}\n\n" for the items of a list, numbered from `start`
Numbered(items, start, Item(_)) ==
    Concat([i \in 1..Len(items) |->
              <<ToString(start + i - 1), ". ">> \o Item(items[i]) \o <<"\n", "\n">>])

\* pp.get("petitioners", []) or pp.get("plaintiffs", [])
PetitionersOf(entities) ==
    LET pp == entities.potential_parties
    IN  IF Truthy(pp.petitioners) THEN pp.petitioners ELSE pp.plaintiffs

\* pp.get("respondents", []) or pp.get("defendants", [])
RespondentsOf(entities) ==
    LET pp == entities.potential_parties
    IN  IF Truthy(pp.respondents) THEN pp.respondents ELSE pp.defendants

\* the first element of a list, or a default when the list is empty
FirstOr(list, default) == IF Truthy(list) THEN list[1] ELSE default

_generate_title(document_type, brief_analysis, entities, info) ==
    IF Truthy(InfoGet(info, "title")) THEN info["title"]
    ELSE
    LET court == Get(info, "court", <<"APPROPRIATE COURT">>)
        domains == Domains(brief_analysis)
        case_type == IF In("criminal", domains) THEN "CRIMINAL CASE"
                     ELSE IF In("civil", domains) THEN "CIVIL SUIT"
                     ELSE IF In("constitutional", domains) THEN "WRIT PETITION"
                     ELSE IF In("corporate", domains) THEN "COMPANY PETITION"
                     ELSE IF In("tax", domains) THEN "TAX APPEAL"
                     ELSE "PETITION"
        petitioner == FirstOr(PetitionersOf(entities), "PETITIONER NAME")
        respondent == FirstOr(RespondentsOf(entities), "RESPONDENT NAME")
        head == <<"IN THE ">> \o court \o <<"\n", "\n", case_type, "\n", "\n">>
        matter(p, r) == <<"IN THE MATTER OF:", "\n", petitioner, p, "\n", "\n",
                          "VERSUS", "\n", "\n", respondent, r>>
    IN  IF document_type = "petition"
        THEN head \o matter(" ... PETITIONER", " ... RESPONDENT")
        ELSE IF document_type \in {"reply", "written_statement"}
        THEN head \o matter(" ... PETITIONER/PLAINTIFF", " ... RESPONDENT/DEFENDANT")
        ELSE IF document_type = "rejoinder"
        THEN head \o matter(" ... PETITIONER/PLAINTIFF", " ... RESPONDENT/DEFENDANT")
                  \o <<"\n", "\n", "REJOINDER ON BEHALF OF THE PETITIONER/PLAINTIFF">>
        ELSE matter(" ... PETITIONER", " ... RESPONDENT")

_generate_parties_section(document_type, entities, info) ==
    IF Truthy(InfoGet(info, "parties")) THEN info["parties"]
    ELSE
    LET petitioners == PetitionersOf(entities)
        respondents == RespondentsOf(entities)
        organizations == entities.organizations
        is_org(party) == \E org \in Range(organizations) : IsSubstring(org, party)
        details(party) ==
            IF is_org(party)
            THEN <<party, ", a company/organization registered under the laws of India, having its registered office at [ADDRESS].">>
            ELSE <<party, ", aged about [AGE] years, resident of [ADDRESS].">>
        first == IF Truthy(petitioners)
                 THEN <<IF document_type \in {"petition", "rejoinder"}
                        THEN "1. The Petitioner is " ELSE "1. The Plaintiff is ">>
                      \o details(petitioners[1]) \o <<"\n", "\n">>
                 ELSE <<"1. The Petitioner/Plaintiff details: [TO BE FILLED]", "\n", "\n">>
        second == IF Truthy(respondents)
                  THEN <<IF document_type \in {"petition", "rejoinder"}
                         THEN "2. The Respondent is " ELSE "2. The Defendant is ">>
                       \o details(respondents[1])
                  ELSE <<"2. The Respondent/Defendant details: [TO BE FILLED]">>
    IN  first \o second

_generate_jurisdiction_section(brief_analysis, entities, info) ==
    IF Truthy(InfoGet(info, "jurisdiction")) THEN info["jurisdiction"]
    ELSE
    LET location == FirstOr(entities.locations, "[LOCATION]")
        domains == Domains(brief_analysis)
    IN  IF In("criminal", domains)
        THEN <<"This Hon'ble Court has jurisdiction ... as the alleged offence occurred within the territorial jurisdiction of this Court at ", location, ".">>
        ELSE IF In("civil", domains)
        THEN <<"This Hon'ble Court has jurisdiction ... as the subject matter of the dispute is situated within the territorial jurisdiction of this Court at ", location, ", and the cause of action arose within the jurisdiction of this Court.">>
        ELSE IF In("constitutional", domains)
        THEN <<"This Hon'ble Court has jurisdiction to entertain this petition under Article 226 of the Constitution of India ...">>
        ELSE <<"This Hon'ble Court has jurisdiction ... as the cause of action arose within the territorial jurisdiction of this Court at ", location, ".">>

\* ", ".join(list) and " and ".join(list)
Join(list, sep) ==
    Concat([i \in 1..Len(list) |-> IF i = 1 THEN <<list[i]>> ELSE <<sep, list[i]>>])

\* sent_tokenize(summary): a summary is the sequence of its sentences
sent_tokenize(summary) == summary

\* "contract" in summary.lower()
MentionsContract(summary) == \E i \in 1..Len(summary) : summary[i] = "The contract was broken."

_generate_facts_section(document_type, brief_analysis, entities, info) ==
    IF Truthy(InfoGet(info, "facts")) THEN info["facts"]
    ELSE
    LET dates == entities.dates
        monetary_values == entities.monetary_values
        summary == Get(brief_analysis, "summary", << >>)
        sentences == sent_tokenize(summary)
        n == Len(sentences)
        d == IF Truthy(dates) THEN 1 ELSE 0
    IN  IF ~Truthy(summary)
        THEN <<"The facts of the case are as follows: [FACTS TO BE FILLED]">>
        ELSE <<"The facts of the case are as follows:", "\n", "\n">>
             \o Numbered(sentences, 1, LAMBDA x : <<x>>)
             \o (IF Truthy(dates)
                 THEN <<ToString(n + 1), ". The relevant dates in this matter are: ">>
                      \o Join(Take(dates, 3), ", ") \o <<".", "\n", "\n">>
                 ELSE << >>)
             \o (IF /\ Truthy(monetary_values)
                    /\ \/ In("civil", Get(brief_analysis, "domains", << >>))
                       \/ MentionsContract(summary)
                 THEN <<ToString(n + d + 1), ". The monetary value involved in this dispute is approximately ">>
                      \o Join(Take(monetary_values, 2), " and ") \o <<".", "\n", "\n">>
                 ELSE << >>)

_generate_legal_provisions_section(law_sections, info) ==
    IF Truthy(InfoGet(info, "legal_provisions")) THEN info["legal_provisions"]
    ELSE IF ~Truthy(law_sections)
    THEN <<"The following legal provisions are applicable to this case: [TO BE FILLED]">>
    ELSE <<"The following legal provisions are applicable to this case:", "\n", "\n">>
         \o Concat([i \in 1..Len(law_sections) |->
                      <<ToString(i), ". ", law_sections[i].title, " - Section ",
                        law_sections[i].sectionNumber, ":", "\n", " ", " ", " ",
                        law_sections[i].content, "\n", "\n">>])

\* len(content) > 150 for the content of a law section
LongContents == {"When a contract has been broken, the party who suffers ..."}

\* content[:150] + "..."
Truncated(contents) ==
    CASE contents = "When a contract has been broken, the party who suffers ..."
           -> "When a contract has been broken, the party who..."

_generate_grounds_section(analysis, law_sections, case_histories, info) ==
    IF Truthy(InfoGet(info, "grounds")) THEN info["grounds"]
    ELSE
    LET arguments == Get(analysis, "arguments", << >>)
        laws == Take(law_sections, 2)
        cases == Take(case_histories, 2)
    IN  <<"The petition is filed on the following grounds:", "\n", "\n">>
        \o Numbered(arguments, 1, LAMBDA x : <<x>>)
        \o Numbered(laws, Len(arguments) + 1,
                    LAMBDA x : <<"As per ", x.title, " Section ", x.sectionNumber,
                                 ", which states that '",
                                 IF x.content \in LongContents THEN Truncated(x.content)
                                 ELSE x.content,
                                 "', the petitioner has a valid claim.">>)
        \o Numbered(cases, Len(arguments) + Len(laws) + 1,
                    LAMBDA x : <<"The Hon'ble Court in the case of ", x.parties, " (",
                                 x.citation, ") has held that ", x.holdings,
                                 " This precedent directly applies to the present case.">>)

\* "prayer" in rec.lower() or "relief" in rec.lower()
MentionsPrayerOrRelief(rec) ==
    rec \in {"Seek interim relief pending trial.", "Amend the prayer clause."}

\* prayer_text.count(';\n\n')
CountItemEnds(text) ==
    Cardinality({i \in 1..Len(text) - 2 :
                    text[i] = ";" /\ text[i + 1] = "\n" /\ text[i + 2] = "\n"})

\* the two numbered items that the prayer opens with, by domain and document type
PrayerItems(document_type, domains) ==
    LET two(a, b) == <<"1. ", a, ";", "\n", "\n", "2. ", b, ";", "\n", "\n">>
        petition == document_type = "petition"
        reply == document_type \in {"reply", "written_statement"}
    IN  IF In("criminal", domains)
        THEN IF petition
             THEN two("Direct the respondent to register an FIR and conduct a fair investigation into the matter",
                      "Grant compensation to the petitioner for the losses suffered")
             ELSE IF reply
             THEN two("Dismiss the petition/complaint as it is devoid of merits",
                      "Exonerate the respondent/defendant from all charges")
             ELSE << >>
        ELSE IF In("civil", domains)
        THEN IF petition
             THEN two("Declare that the petitioner is entitled to the reliefs claimed",
                      "Direct the respondent to pay damages/compensation as deemed fit by this Hon'ble Court")
             ELSE IF reply
             THEN two("Dismiss the suit with costs as it is devoid of merits",
                      "Declare that the plaintiff is not entitled to any of the reliefs claimed")
             ELSE << >>
        ELSE IF In("constitutional", domains)
        THEN IF petition
             THEN two("Issue a writ of mandamus or any other appropriate writ directing the respondent to perform its statutory duties",
                      "Declare the actions of the respondent as illegal, arbitrary, and violative of the petitioner's fundamental rights")
             ELSE IF reply
             THEN two("Dismiss the writ petition as it is not maintainable",
                      "Declare that the respondent has acted within the framework of law")
             ELSE << >>
        ELSE IF petition
             THEN two("Grant the reliefs as prayed for in the petition",
                      "Award costs of the proceedings to the petitioner")
             ELSE IF reply
             THEN two("Dismiss the petition/suit with costs",
                      "Grant such other relief as deemed fit in favor of the respondent/defendant")
             ELSE << >>

_generate_prayer_section(document_type, analysis, brief_analysis, info) ==
    IF Truthy(InfoGet(info, "prayer")) THEN info["prayer"]
    ELSE
    LET domains == Domains(brief_analysis)
        recommendations == Get(analysis, "recommendations", << >>)
        opening == <<"In light of the facts and circumstances of the case, it is most respectfully prayed that this Hon'ble Court may be pleased to:", "\n", "\n">>
        recs == SelectSeq(Take(recommendations, 2), MentionsPrayerOrRelief)
        body == opening \o PrayerItems(document_type, domains)
                        \o Numbered(recs, 3, LAMBDA x : <<x>>)
    IN  body \o <<ToString(CountItemEnds(body) + 1),
                  ". Pass any other order or direction as this Hon'ble Court may deem fit and proper in the interest of justice.">>

\* list[0], which raises IndexError on the empty list
IndexErrorAt0(list) == list = << >>

\* whether _generate_verification_section raises IndexError: the key is always in
\* potential_parties, so that .get() never gives its default
VerificationRaises(document_type, entities, info) ==
    /\ ~Truthy(InfoGet(info, "verification"))
    /\ \/ /\ document_type \in {"petition", "rejoinder"}
          /\ IndexErrorAt0(Get(entities.potential_parties, "petitioners",
                               <<"[PETITIONER NAME]">>))
       \/ /\ document_type \in {"reply", "written_statement"}
          /\ IndexErrorAt0(Get(entities.potential_parties, "respondents",
                               <<"[RESPONDENT NAME]">>))

\* _generate_verification_section, where it does not raise
_generate_verification_section(document_type, entities, info) ==
    IF Truthy(InfoGet(info, "verification")) THEN info["verification"]
    ELSE
    LET location == FirstOr(entities.locations, "[PLACE]")
        text(what) == <<"Verified at ", location, " on this ", Today,
                        " that the contents of the above ", what,
                        " are true and correct to the best of my knowledge and belief and nothing material has been concealed therefrom.",
                        "\n", "\n">>
    IN  IF document_type \in {"petition", "rejoinder"}
        THEN text("petition")
             \o <<Get(entities.potential_parties, "petitioners", <<"[PETITIONER NAME]">>)[1],
                  "\n", "PETITIONER">>
        ELSE IF document_type \in {"reply", "written_statement"}
        THEN text("reply")
             \o <<Get(entities.potential_parties, "respondents", <<"[RESPONDENT NAME]">>)[1],
                  "\n", "RESPONDENT">>
        ELSE text("document") \o <<"[NAME]", "\n", "[DESIGNATION]">>

_generate_preliminary_objections(analysis, info) ==
    IF Truthy(InfoGet(info, "preliminary_objections")) THEN info["preliminary_objections"]
    ELSE
    LET challenges == Get(analysis, "challenges", << >>)
    IN  <<"The respondent/defendant raises the following preliminary objections:", "\n", "\n">>
        \o (IF Truthy(challenges) THEN Numbered(challenges, 1, LAMBDA x : <<x>>)
            ELSE Numbered(<<"The petition/plaint is not maintainable in law and on facts.",
                            "The petition/plaint is barred by limitation.",
                            "The petitioner/plaintiff has no locus standi to file the present petition/suit.",
                            "The petition/plaint does not disclose any cause of action against the respondent/defendant.">>,
                          1, LAMBDA x : <<x>>))

_generate_facts_rebuttal(brief_analysis, info) ==
    IF Truthy(InfoGet(info, "facts_rebuttal")) THEN info["facts_rebuttal"]
    ELSE
    LET domains == Domains(brief_analysis)
        generic == <<"The facts stated in the petition/plaint are denied as incorrect and misleading, except those that are specifically admitted herein.",
                     "The respondent/defendant denies all allegations of wrongdoing or liability as alleged in the petition/plaint.">>
        specific == IF In("criminal", domains)
                    THEN <<"The allegations of criminal conduct are vehemently denied as false and baseless.",
                           "The complaint is filed with malafide intentions to harass and pressurize the respondent/defendant.">>
                    ELSE IF In("civil", domains)
                    THEN <<"The alleged breach of contract/agreement is denied.",
                           "The petitioner/plaintiff has failed to disclose material facts and has approached this Hon'ble Court with unclean hands.">>
                    ELSE IF In("constitutional", domains)
                    THEN <<"The respondent has acted within the framework of law and constitutional provisions.",
                           "The petitioner has alternative remedies available which have not been exhausted before approaching this Hon'ble Court.">>
                    ELSE << >>
    IN  <<"The respondent/defendant submits the following in response to the alleged facts:", "\n", "\n">>
        \o Numbered(generic \o specific, 1, LAMBDA x : <<x>>)

\* the chain of arg.replace(...) that turns an argument into a counter-argument
CounterArgument(arg) ==
    CASE arg = "The documented communications clearly establish prior intent."
           -> "The documented communications allegedly establish prior intent."
      [] arg = "The receipt proves payment."
           -> "The receipt attempts to prove payment."
      [] OTHER -> arg

_generate_legal_arguments(analysis, law_sections, case_histories, info) ==
    IF Truthy(InfoGet(info, "legal_arguments")) THEN info["legal_arguments"]
    ELSE
    LET arguments == Get(analysis, "arguments", << >>)
        counter_arguments == [i \in 1..Len(arguments) |-> CounterArgument(arguments[i])]
        shown == Take(counter_arguments, 3)
        laws == Take(law_sections, 2)
        cases == Take(case_histories, 2)
    IN  <<"The following legal arguments are submitted for consideration:", "\n", "\n">>
        \o Numbered(shown, 1, LAMBDA x : <<x>>)
        \o Numbered(laws, Len(shown) + 1,
                    LAMBDA x : <<"With respect to ", x.title, " Section ", x.sectionNumber,
                                 ", the correct interpretation does not support the petitioner's/plaintiff's claim because [SPECIFIC LEGAL REASONING].">>)
        \o Numbered(cases, Len(shown) + Len(laws) + 1,
                    LAMBDA x : <<"The case of ", x.parties, " (", x.citation,
                                 ") cited by the petitioner/plaintiff is distinguishable from the present case because the facts and circumstances are materially different.">>)

_generate_rebuttal_to_reply(analysis, info) ==
    IF Truthy(InfoGet(info, "rebuttal_to_reply")) THEN info["rebuttal_to_reply"]
    ELSE
    LET challenges == Get(analysis, "challenges", << >>)
    IN  <<"The petitioner/plaintiff submits the following in response to the reply/written statement:", "\n", "\n">>
        \o Numbered(<<"The preliminary objections raised in the reply/written statement are misconceived and liable to be rejected.",
                      "The respondent/defendant has failed to specifically deny the material allegations in the petition/plaint, which amounts to admission of those facts.">>,
                    1, LAMBDA x : <<x>>)
        \o Numbered(Take(challenges, 2), 3,
                    LAMBDA x : <<"The respondent's/defendant's contention that ", x,
                                 " is incorrect and misleading because [SPECIFIC REBUTTAL].">>)

_generate_additional_facts(brief_analysis, info) ==
    IF Truthy(InfoGet(info, "additional_facts")) THEN info["additional_facts"]
    ELSE
    LET domains == Domains(brief_analysis)
        generic == <<"After filing the petition/plaint, the petitioner/plaintiff has discovered additional evidence that further strengthens the case.",
                     "The respondent/defendant has continued with the alleged illegal activities even after notice of this proceeding.">>
        specific == IF In("criminal", domains)
                    THEN <<"New witnesses have come forward who can testify to the respondent's/defendant's involvement in the alleged offense.">>
                    ELSE IF In("civil", domains)
                    THEN <<"Additional documents have been discovered that conclusively prove the breach of contract/agreement by the respondent/defendant.">>
                    ELSE IF In("constitutional", domains)
                    THEN <<"Recent actions by the respondent further demonstrate the pattern of constitutional violations alleged in the petition.">>
                    ELSE << >>
    IN  <<"The petitioner/plaintiff submits the following additional facts that have come to light:", "\n", "\n">>
        \o Numbered(generic \o specific, 1, LAMBDA x : <<x>>)

\* the petitioner, else the plaintiff, else the first person, else a placeholder
FirstPartyOr(entities, default) ==
    LET pp == entities.potential_parties
    IN  IF Truthy(pp.petitioners) THEN pp.petitioners[1]
        ELSE IF Truthy(pp.plaintiffs) THEN pp.plaintiffs[1]
        ELSE IF Truthy(entities.persons) THEN entities.persons[1]
        ELSE default

_generate_deponent_details(entities, info) ==
    IF Truthy(InfoGet(info, "deponent_details")) THEN info["deponent_details"]
    ELSE <<"I, ", FirstPartyOr(entities, "[DEPONENT NAME]"),
           ", aged about [AGE] years, [OCCUPATION], [NATIONALITY], resident of ",
           FirstOr(entities.locations, "[ADDRESS]"),
           ", do hereby solemnly affirm and declare as under:">>

_generate_affidavit_statements(brief_analysis, info) ==
    IF Truthy(InfoGet(info, "statements")) THEN info["statements"]
    ELSE
    LET sentences == sent_tokenize(Get(brief_analysis, "summary", << >>))
    IN  Numbered(sentences, 1, LAMBDA x : <<x>>)
        \o Numbered(<<"I am well conversant with the facts and circumstances of the case and am competent to swear this affidavit.",
                      "I have read and understood the contents of the accompanying petition/application and the same are true and correct to my knowledge.",
                      "The annexures attached to the petition/application are true copies of their respective originals.">>,
                    Len(sentences) + 1, LAMBDA x : <<x>>)

_generate_affidavit_declaration(info) ==
    IF Truthy(InfoGet(info, "declaration")) THEN info["declaration"]
    ELSE <<"I, the deponent above named, do hereby verify that the contents of this affidavit are true and correct to my knowledge, no part of it is false and nothing material has been concealed therefrom.">>

_generate_attestation(info) ==
    IF Truthy(InfoGet(info, "attestation")) THEN info["attestation"]
    ELSE <<"Solemnly affirmed and signed before me on this ", Today, " at [PLACE].",
           "\n", "\n", "NOTARY PUBLIC/OATH COMMISSIONER">>

_generate_sender_details(entities, info) ==
    IF Truthy(InfoGet(info, "sender_details")) THEN info["sender_details"]
    ELSE <<"FROM:", "\n", FirstPartyOr(entities, "[SENDER NAME]"), "\n", "[ADDRESS]", "\n",
           "[CONTACT DETAILS]", "\n", "\n", "THROUGH:", "\n", "[ADVOCATE NAME]", "\n",
           "[ADVOCATE ADDRESS]", "\n", "[ADVOCATE CONTACT DETAILS]">>

_generate_recipient_details(entities, info) ==
    IF Truthy(InfoGet(info, "recipient_details")) THEN info["recipient_details"]
    ELSE
    LET pp == entities.potential_parties
        recipient == IF Truthy(pp.respondents) THEN pp.respondents[1]
                     ELSE IF Truthy(pp.defendants) THEN pp.defendants[1]
                     ELSE "[RECIPIENT NAME]"
    IN  <<"TO:", "\n", recipient, "\n", "[ADDRESS]", "\n", "[CONTACT DETAILS]">>

\* "contract" in " ".join(domains).lower()
JoinedMentionsContract(domains) == In("contract", domains)

_generate_notice_subject(brief_analysis, info) ==
    IF Truthy(InfoGet(info, "subject")) THEN info["subject"]
    ELSE
    LET domains == Domains(brief_analysis)
        acts == Get(brief_analysis, "acts", << >>)
        kind == IF In("criminal", domains) THEN "LEGAL NOTICE FOR FILING CRIMINAL COMPLAINT"
                ELSE IF In("civil", domains)
                THEN IF JoinedMentionsContract(domains)
                     THEN "LEGAL NOTICE FOR BREACH OF CONTRACT AND RECOVERY OF DAMAGES"
                     ELSE "LEGAL NOTICE FOR CIVIL DISPUTE"
                ELSE IF In("corporate", domains) THEN "LEGAL NOTICE FOR CORPORATE DISPUTE"
                ELSE "LEGAL NOTICE"
    IN  <<"SUBJECT: ", kind>> \o (IF Truthy(acts) THEN <<" UNDER ", acts[1]>> ELSE << >>)

_generate_notice_demand(analysis, info) ==
    IF Truthy(InfoGet(info, "demand")) THEN info["demand"]
    ELSE
    LET recommendations == Get(analysis, "recommendations", << >>)
    IN  <<"In view of the above facts and circumstances, you are hereby called upon to:", "\n", "\n">>
        \o (IF Truthy(recommendations)
            THEN Numbered(Take(recommendations, 3), 1, LAMBDA x : <<x>>)
            ELSE Numbered(<<"[SPECIFIC DEMAND 1]", "[SPECIFIC DEMAND 2]",
                            "Pay the legal costs of this notice.">>, 1, LAMBDA x : <<x>>))

_generate_notice_timeline(info) ==
    IF Truthy(InfoGet(info, "timeline")) THEN info["timeline"]
    ELSE <<"You are hereby given [NUMBER] days from the receipt of this notice to comply with the above demands, failing which my client will be constrained to initiate appropriate legal proceedings against you ...">>

_generate_notice_consequences(law_sections, info) ==
    IF Truthy(InfoGet(info, "consequences")) THEN info["consequences"]
    ELSE
    LET laws == Take(law_sections, 2)
    IN  <<"Please note that if you fail to comply with the above demands within the stipulated time, you will be liable for the following consequences:", "\n", "\n">>
        \o Numbered(laws, 1, LAMBDA x : <<"Legal action under ", x.title, " Section ",
                                          x.sectionNumber, ".">>)
        \o Numbered(<<"Payment of damages, compensation, and legal costs.",
                      "Any other legal remedy available under the law.">>,
                    Len(laws) + 1, LAMBDA x : <<x>>)

----------------------------------------------------------------------------
(* CaseFileDraftingAgent._generate_document_sections *)

\* the assignment without its guard `if name in sections`
AssignUnguarded(sections, name, text) == (name :> text) @@ sections

\* `if name in sections: sections[name] = text`
Assign(sections, name, text) ==
    IF name \in DOMAIN sections THEN [sections EXCEPT ![name] = text] ELSE sections

\* a chain of such assignments, in order
RECURSIVE AssignAll(_, _, _)
AssignAll(sections, assignments, i) ==
    IF i > Len(assignments) THEN sections
    ELSE AssignAll(Assign(sections, assignments[i][1], assignments[i][2]), assignments, i + 1)

\* the sections common to several document types that come before verification
CommonAssignments(document_type, brief_analysis, law_sections, analysis, entities, info) ==
    << <<"title", _generate_title(document_type, brief_analysis, entities, info)>>,
       <<"parties", _generate_parties_section(document_type, entities, info)>>,
       <<"facts", _generate_facts_section(document_type, brief_analysis, entities, info)>>,
       <<"legal_provisions", _generate_legal_provisions_section(law_sections, info)>>,
       <<"prayer", _generate_prayer_section(document_type, analysis, brief_analysis, info)>> >>

\* the document-specific sections, by the if/elif chain on document_type
SpecificAssignments(document_type, brief_analysis, law_sections, case_histories, analysis, entities, info) ==
    IF document_type = "petition"
    THEN << <<"jurisdiction", _generate_jurisdiction_section(brief_analysis, entities, info)>>,
            <<"grounds", _generate_grounds_section(analysis, law_sections, case_histories, info)>> >>
    ELSE IF document_type = "reply" \/ document_type = "written_statement"
    THEN << <<"preliminary_objections", _generate_preliminary_objections(analysis, info)>>,
            <<"facts_rebuttal", _generate_facts_rebuttal(brief_analysis, info)>>,
            <<"legal_arguments", _generate_legal_arguments(analysis, law_sections, case_histories, info)>> >>
    ELSE IF document_type = "rejoinder"
    THEN << <<"rebuttal_to_reply", _generate_rebuttal_to_reply(analysis, info)>>,
            <<"additional_facts", _generate_additional_facts(brief_analysis, info)>>,
            <<"legal_arguments", _generate_legal_arguments(analysis, law_sections, case_histories, info)>> >>
    ELSE IF document_type = "affidavit"
    THEN << <<"deponent_details", _generate_deponent_details(entities, info)>>,
            <<"statements", _generate_affidavit_statements(brief_analysis, info)>>,
            <<"declaration", _generate_affidavit_declaration(info)>>,
            <<"attestation", _generate_attestation(info)>> >>
    ELSE IF document_type = "legal_notice"
    THEN << <<"sender_details", _generate_sender_details(entities, info)>>,
            <<"recipient_details", _generate_recipient_details(entities, info)>>,
            <<"subject", _generate_notice_subject(brief_analysis, info)>>,
            <<"demand", _generate_notice_demand(analysis, info)>>,
            <<"timeline", _generate_notice_timeline(info)>>,
            <<"consequences", _generate_notice_consequences(law_sections, info)>> >>
    ELSE << >>

\* additional_info or {}, where no additional_info is [given |-> FALSE]
InfoOf(additional_info) ==
    IF additional_info.given /\ Truthy(additional_info.dict) THEN additional_info.dict
    ELSE EmptyDict

\* _generate_document_sections: [raised |-> the exception or "none", sections |-> the result]
_generate_document_sections(document_type, brief_analysis, law_sections, case_histories, analysis, entities, additional_info) ==
    LET structure == StructureOf(document_type)
        empty == [name \in Range(structure) |-> << >>]
        info == InfoOf(additional_info)
        common == AssignAll(empty,
                            CommonAssignments(document_type, brief_analysis, law_sections,
                                              analysis, entities, info), 1)
    IN  IF "verification" \in DOMAIN common
           /\ VerificationRaises(document_type, entities, info)
        THEN [raised |-> "IndexError", sections |-> EmptyDict]
        ELSE [raised |-> "none",
              sections |->
                AssignAll(Assign(common, "verification",
                                 _generate_verification_section(document_type, entities, info)),
                          SpecificAssignments(document_type, brief_analysis, law_sections,
                                              case_histories, analysis, entities, info), 1)]

\* sections.items(): the keys in the order of the structure they were created from
Items(document_type, sections) ==
    LET structure == StructureOf(document_type)
    IN  [i \in 1..Len(structure) |-> <<structure[i], sections[structure[i]]>>]

----------------------------------------------------------------------------
(* The arguments that draft_case_file is called with *)

DocumentTypes == TemplateTypes \cup {"summons"}

BriefAnalyses ==
    { EmptyDict,
      [domains |-> <<"general">>, summary |-> << >>, acts |-> << >>],
      [domains |-> <<"criminal">>, acts |-> <<"Indian Penal Code">>,
       summary |-> <<"The accused cheated the complainant.">>],
      [domains |-> <<"civil", "contract">>, acts |-> <<"Indian Contract Act, 1872">>,
       summary |-> <<"The contract was broken.", "Damages are claimed.">>],
      [domains |-> <<"constitutional">>,
       summary |-> <<"The order violates Article 14.">>] }

LawSection73 ==
    [title |-> "Indian Contract Act", sectionNumber |-> "73",
     content |-> "When a contract has been broken, the party who suffers ...",
     relevance |-> 9]
LawSection10 ==
    [title |-> "Specific Relief Act", sectionNumber |-> "10",
     content |-> "Cases in which specific performance of contract enforceable.",
     relevance |-> 7]
LawSection420 ==
    [title |-> "Indian Penal Code", sectionNumber |-> "420",
     content |-> "Whoever cheats ...", relevance |-> 5]
CaseSharma ==
    [citation |-> "AIR 2019 SC 1234", parties |-> "Sharma vs. State of Maharashtra",
     holdings |-> "The Supreme Court held that the intention to deceive should be present from the beginning.",
     relevance |-> 8]
CaseMehta ==
    [citation |-> "AIR 2017 SC 567", parties |-> "Mehta vs. Patel & Others",
     holdings |-> "The Court established that the aggrieved party must prove actual damages.",
     relevance |-> 9]

\* law_sections, case_histories and analysis: nothing found, and a full result
Researches ==
    { [law_sections |-> << >>, case_histories |-> << >>, analysis |-> EmptyDict],
      [law_sections |-> <<LawSection73, LawSection10, LawSection420>>,
       case_histories |-> <<CaseMehta, CaseSharma>>,
       analysis |->
         [arguments |-> <<"The documented communications clearly establish prior intent.",
                          "The penalty clause is valid and enforceable.">>,
          challenges |-> <<"The defense may argue force majeure.">>,
          recommendations |-> <<"Gather all communication records.",
                                "Seek interim relief pending trial.",
                                "Amend the prayer clause.">>]] }

\* the text a caller gives for a section
OverrideText == <<"Text supplied by the caller.">>

\* additional_info: none, keys that name no section, and each section name
\* mapped to a text, one of them to the empty text
AdditionalInfos ==
    {[given |-> FALSE, dict |-> EmptyDict],
     [given |-> TRUE, dict |-> EmptyDict],
     [given |-> TRUE, dict |-> [court |-> <<"HIGH COURT OF DELHI AT NEW DELHI">>,
                                case_number |-> <<"CS (COMM) XXX/2024">>]],
     [given |-> TRUE, dict |-> [facts |-> << >>]]}
        \cup {[given |-> TRUE, dict |-> (name :> OverrideText)] : name \in SectionNames}

----------------------------------------------------------------------------
(* CaseFileDraftingAgent.draft_case_file, statement by statement *)

Init ==
    /\ pc = "idle"
    /\ args = EmptyDict
    /\ extracted = EmptyDict
    /\ document_sections = EmptyDict
    /\ document_content = << >>
    /\ error = "none"
    /\ result = EmptyDict
    /\ fill = [pc |-> "idle"]
    /\ api = [pc |-> "idle"]
    /\ agg = [pc |-> "idle"]
    /\ bert = [_instance |-> 0, objects |-> << >>, threads |-> << >>]
    /\ cit = [pc |-> "idle"]
    /\ syn = [pc |-> "idle"]
    /\ gsq = [pc |-> "idle"]
    /\ dom = [pc |-> "idle"]
    /\ srch = [pc |-> "idle"]
    /\ ctor = [pc |-> "idle"]
    /\ norm = [pc |-> "idle"]
    /\ refs = [pc |-> "idle"]

\* a caller calls draft_case_file
Call ==
    /\ pc = "idle"
    /\ \E document_type \in DocumentTypes, brief \in Briefs,
          brief_analysis \in BriefAnalyses, research \in Researches,
          additional_info \in AdditionalInfos :
          args' = [document_type |-> document_type, brief |-> brief,
                   brief_analysis |-> brief_analysis,
                   law_sections |-> research.law_sections,
                   case_histories |-> research.case_histories,
                   analysis |-> research.analysis,
                   additional_info |-> additional_info]
    /\ pc' = "called"
    /\ UNCHANGED <<extracted, document_sections, document_content, error, result,
                   fill, api, agg, analyzerVars, textVars>>

\* a validation that accepts every document type
AnyDocumentType(document_type) == document_type = document_type

\* `if document_type not in self.templates: raise ValueError(...)`
ValidDocumentType(document_type) == document_type \in DOMAIN templates

Validate ==
    /\ pc = "called"
    /\ IF ValidDocumentType(args.document_type)
       THEN pc' = "validated" /\ error' = error
       ELSE pc' = "raised" /\ error' = "ValueError"
    /\ UNCHANGED <<args, extracted, document_sections, document_content, result,
                   fill, api, agg, analyzerVars, textVars>>

\* entities = self._extract_entities(brief_content)
ExtractEntities ==
    /\ pc = "validated"
    /\ extracted' = _extract_entities(args.brief)
    /\ pc' = "extracted"
    /\ UNCHANGED <<args, document_sections, document_content, error, result,
                   fill, api, agg, analyzerVars, textVars>>

\* document_sections = self._generate_document_sections(...)
GenerateSections ==
    /\ pc = "extracted"
    /\ LET generated == _generate_document_sections(
                            args.document_type, args.brief_analysis, args.law_sections,
                            args.case_histories, args.analysis, extracted,
                            args.additional_info)
       IN  IF generated.raised = "none"
           THEN /\ document_sections' = generated.sections
                /\ pc' = "generated"
                /\ error' = error
           ELSE /\ document_sections' = document_sections
                /\ pc' = "raised"
                /\ error' = generated.raised
    /\ UNCHANGED <<args, extracted, document_content, result, fill, api, agg, analyzerVars, textVars>>

\* document_content = self._fill_template(document_type, document_sections)
FillDocument ==
    /\ pc = "generated"
    /\ document_content' =
          _fill_template(args.document_type, Items(args.document_type, document_sections))
    /\ pc' = "filled"
    /\ UNCHANGED <<args, extracted, document_sections, error, result, fill, api, agg, analyzerVars, textVars>>

\* len(brief_content) > 100
LongBriefs == {}

\* the metadata dict
Metadata(document_type, brief, law_sections, case_histories) ==
    [document_type |-> document_type,
     generated_at |-> Today,
     based_on_brief |-> IF brief.text \in LongBriefs THEN <<brief.text, "...">>
                        ELSE <<brief.text>>,
     law_sections_used |->
        [i \in 1..Len(Take(law_sections, 3)) |->
            <<law_sections[i].title, " Section ", law_sections[i].sectionNumber>>],
     case_histories_used |->
        [i \in 1..Len(Take(case_histories, 3)) |->
            <<case_histories[i].parties, " (", case_histories[i].citation, ")">>]]

\* the metadata and the return statement
Return ==
    /\ pc = "filled"
    /\ result' = [content |-> document_content,
                  metadata |-> Metadata(args.document_type, args.brief,
                                        args.law_sections, args.case_histories),
                  sections |-> document_sections]
    /\ pc' = "returned"
    /\ UNCHANGED <<args, extracted, document_sections, document_content, error,
                   fill, api, agg, analyzerVars, textVars>>

NextDraft == Call \/ Validate \/ ExtractEntities \/ GenerateSections \/ FillDocument \/ Return

SpecDraft == Init /\ [][NextDraft]_vars

----------------------------------------------------------------------------
(* Claims about draft_case_file and _generate_document_sections *)

\* _generate_document_sections has returned its section map
SectionsGenerated == pc \in {"generated", "filled", "returned"}

\* the info the section generators see in the call in progress
CallInfo == InfoOf(args.additional_info)

\* C1: draft_case_file raises nothing but the unsupported-document-type error:
\* a call that ends in an exception was given a document type outside the six
\* supported ones and ends in that validation error.
C1_OnlyUnsupportedTypeRaises ==
    pc = "raised" => /\ error = "ValueError"
                     /\ args.document_type \notin TemplateTypes

\* C3: a call with a document type outside the catalog ends in the validation
\* error with no entity extracted, no section generated, no template filled and
\* nothing returned.
C3_UnsupportedTypeRejectedFirst ==
    (pc \notin {"idle", "called"} /\ args.document_type \notin TemplateTypes)
        => /\ pc = "raised"
           /\ error = "ValueError"
           /\ extracted = EmptyDict
           /\ document_sections = EmptyDict
           /\ document_content = << >>
           /\ result = EmptyDict

\* a call with document type "summons" has ended in the validation error
C3_Witness ==
    /\ pc = "raised"
    /\ args.document_type = "summons"
    /\ error = "ValueError"

\* C4: every section of the schema of the document type has a non-empty text in
\* the map that _generate_document_sections returns.
C4_EverySectionNonEmpty ==
    SectionsGenerated =>
        \A name \in Range(StructureOf(args.document_type)) :
            document_sections[name] # << >>

\* C5: the keys of the map that _generate_document_sections returns are exactly
\* the sections of the schema of the document type.
C5_KeysAreTheSchema ==
    SectionsGenerated =>
        DOMAIN document_sections = Range(StructureOf(args.document_type))

\* a map was returned for a call whose additional_info holds a key that is no
\* section of the document type's schema
C5_Witness ==
    /\ SectionsGenerated
    /\ \E key \in DOMAIN CallInfo : key \notin Range(StructureOf(args.document_type))
    /\ DOMAIN document_sections # {}

\* C6: a section of the schema that additional_info maps to a non-empty text has
\* exactly that text in the map that _generate_document_sections returns.
C6_OverrideFirst ==
    SectionsGenerated =>
        \A name \in Range(StructureOf(args.document_type)) :
            (name \in DOMAIN CallInfo /\ CallInfo[name] # << >>)
                => document_sections[name] = CallInfo[name]

----------------------------------------------------------------------------
(* _fill_template on its own: a call with the section map of a supported *)
(* document type, one of whose texts is any text a caller can supply.     *)

\* the longest section text, in pieces
MaxPieces == 3

\* what a caller-supplied text is made of: the opening of a placeholder, the
\* stem of a placeholder name, a whole placeholder of no section, the end of
\* a placeholder, a space, a newline
Pieces ==
    { <<"[", "A", "_">>,
      <<"A", "_">>,
      <<"[", "B", "_", "PLACEHOLDER", "]">>,
      <<"PLACEHOLDER", "]">>,
      <<" ">>,
      <<"\n">> }

PlainText == <<"Plain text.">>

SectionTexts ==
    UNION {{Concat(ps) : ps \in [1..n -> Pieces]} : n \in 0..MaxPieces}

CallFill ==
    /\ fill.pc = "idle"
    /\ \E document_type \in TemplateTypes, text \in SectionTexts :
        \E section \in Range(StructureOf(document_type)) :
            fill' = [pc |-> "called",
                     document_type |-> document_type,
                     section |-> section,
                     sections |-> [name \in Range(StructureOf(document_type)) |->
                                      IF name = section THEN text ELSE PlainText]]
    /\ UNCHANGED <<pc, args, extracted, document_sections, document_content, error,
                   result, api, agg, analyzerVars, textVars>>

Fill ==
    /\ fill.pc = "called"
    /\ fill' = [fill EXCEPT !.pc = "filled"] @@
               [content |-> _fill_template(fill.document_type,
                                           Items(fill.document_type, fill.sections))]
    /\ UNCHANGED <<pc, args, extracted, document_sections, document_content, error,
                   result, api, agg, analyzerVars, textVars>>

NextFill == CallFill \/ Fill

SpecFill == Init /\ [][NextFill]_vars

\* C23: the whitespace clean-up (runs of 3 or more newlines to 2, runs of 2
\* or more spaces to 1, strip) leaves every text returned by _fill_template
\* as it is.
C23_CleanUpIdempotent ==
    fill.pc = "filled" => CleanUp(fill.content) = fill.content

\* a filled text whose section text brought whitespace of its own next to
\* the whitespace of the template
C23_Witness ==
    /\ fill.pc = "filled"
    /\ \E i \in 1..Len(fill.sections[fill.section]) :
          fill.sections[fill.section][i] \in SpaceTokens
    /\ Len(fill.sections[fill.section]) = MaxPieces
    /\ fill.content # << >>

\* a text holds a substring matching `[A-Z_]+_PLACEHOLDER]`
HasPlaceholderPattern(s) ==
    \E i \in 1..Len(s) :
        /\ i + 3 <= Len(s)
        /\ s[i] \in UpperTokens \cup {"_"}
        /\ s[i + 1] = "_"
        /\ s[i + 2] = "PLACEHOLDER"
        /\ s[i + 3] = "]"

\* C7: the text that _fill_template returns holds no substring matching the
\* placeholder pattern, a run of upper-case letters and underscores followed by
\* "_PLACEHOLDER]".
C7_NoPlaceholderLeft ==
    fill.pc = "filled" => ~HasPlaceholderPattern(fill.content)

----------------------------------------------------------------------------
(* LegalDataAggregator: search_law_sections and search_case_history over *)
(* connectors that return a list of records or raise                      *)

\* the most connectors an aggregator is built with
MaxConnectors == 3

\* the longest list a connector returns
MaxResults == 1

Relevances == {7, 9}

SearchKinds == {"law_sections", "case_history"}

\* the keys the connectors' records carry: (title, sectionNumber) of a law
\* section, citation of a case
RecordKeys(kind) ==
    IF kind = "law_sections"
    THEN {<<"Indian Contract Act", "73">>, <<"Indian Contract Act", "10">>}
    ELSE {"AIR 2017 SC 567", "(2019) 5 SCC 123"}

\* the record connector number `connector` returns at position `position`;
\* its content tells the records of the connectors apart
Record(kind, key, relevance, connector, position) ==
    LET content == <<"connector ", ToString(connector), " result ", ToString(position)>>
    IN  IF kind = "law_sections"
        THEN [title |-> key[1], sectionNumber |-> key[2], relevance |-> relevance,
              content |-> content]
        ELSE [citation |-> key, relevance |-> relevance, holdings |-> content]

\* what a call of connector.search_law_sections / search_case_history does:
\* it raises, or it returns a list of records
ConnectorOutcomes(kind, connector) ==
    {[raises |-> TRUE, results |-> << >>]} \cup
    UNION {{[raises |-> FALSE,
             results |-> [position \in 1..n |->
                             Record(kind, choice[position][1], choice[position][2],
                                    connector, position)]] :
               choice \in [1..n -> RecordKeys(kind) \X Relevances]} :
           n \in 0..MaxResults}

\* `key = (result["title"], result["sectionNumber"])` / `key = result["citation"]`
KeyOf(kind, record) ==
    IF kind = "law_sections" THEN <<record.title, record.sectionNumber>>
    ELSE record.citation

\* the body of the loop over the connectors, with the exception left uncaught
QueryUncaught(all_results, outcome) ==
    IF outcome.raises
    THEN [all_results |-> all_results, error |-> "Exception"]
    ELSE [all_results |-> all_results \o outcome.results, error |-> "none"]

\* `try: results = connector.search_...(query_params); all_results.extend(results)`
\* `except Exception as e: print(...)`
QueryConnector(all_results, outcome) ==
    IF outcome.raises
    THEN [all_results |-> all_results, error |-> "none"]
    ELSE [all_results |-> all_results \o outcome.results, error |-> "none"]

\* the comparison turned around
ReplacesWhenLower(record, stored) == record.relevance < stored.relevance

\* `result["relevance"] > deduplicated[key]["relevance"]`
Replaces(record, stored) == record.relevance > stored.relevance

\* the deduplication loop; `deduplicated` is the dict's values in the order
\* their keys were first inserted
RECURSIVE DeduplicateFrom(_, _, _, _)
DeduplicateFrom(kind, all_results, i, deduplicated) ==
    IF i > Len(all_results) THEN deduplicated
    ELSE LET record == all_results[i]
             at == {j \in 1..Len(deduplicated) :
                        KeyOf(kind, deduplicated[j]) = KeyOf(kind, record)}
         IN  DeduplicateFrom(kind, all_results, i + 1,
                 IF at = {} THEN Append(deduplicated, record)
                 ELSE LET j == CHOOSE j \in at : TRUE
                      IN  IF Replaces(record, deduplicated[j])
                          THEN [deduplicated EXCEPT ![j] = record]
                          ELSE deduplicated)

\* every record kept
KeepAll(kind, all_results) == all_results

Deduplicate(kind, all_results) == DeduplicateFrom(kind, all_results, 1, << >>)

\* `sorted(deduplicated.values(), key=lambda x: x["relevance"], reverse=True)`:
\* a stable sort, so records of equal relevance keep the order of the values
RECURSIVE SortedByRelevance(_)
SortedByRelevance(values) ==
    IF values = << >> THEN << >>
    ELSE LET before == SortedByRelevance(SubSeq(values, 1, Len(values) - 1))
             last == values[Len(values)]
             n == Cardinality({j \in 1..Len(before) :
                                  before[j].relevance >= last.relevance})
         IN  SubSeq(before, 1, n) \o <<last>> \o SubSeq(before, n + 1, Len(before))

\* LegalDataAggregator(connectors).search_law_sections(query_params) or
\* .search_case_history(query_params) is called
Search ==
    /\ agg.pc = "idle"
    /\ \E kind \in SearchKinds, connectors \in 0..MaxConnectors :
          agg' = [pc |-> "querying", kind |-> kind, connectors |-> connectors,
                  outcomes |-> << >>, all_results |-> << >>, error |-> "none",
                  deduplicated |-> << >>, sorted_results |-> << >>]
    /\ UNCHANGED <<pc, args, extracted, document_sections, document_content, error,
                   result, fill, api, analyzerVars, textVars>>

\* one round of `for connector in self.connectors`
Query ==
    /\ agg.pc = "querying"
    /\ Len(agg.outcomes) < agg.connectors
    /\ \E outcome \in ConnectorOutcomes(agg.kind, Len(agg.outcomes) + 1) :
          LET after == QueryConnector(agg.all_results, outcome)
          IN  agg' = [agg EXCEPT !.outcomes = Append(@, outcome),
                                 !.all_results = after.all_results,
                                 !.error = after.error,
                                 !.pc = IF after.error = "none" THEN @ ELSE "raised"]
    /\ UNCHANGED <<pc, args, extracted, document_sections, document_content, error,
                   result, fill, api, analyzerVars, textVars>>

\* the loop `for result in all_results` filling `deduplicated`, then
\* `sorted_results = sorted(...)` and `return sorted_results`
DeduplicateSortReturn ==
    /\ agg.pc = "querying"
    /\ Len(agg.outcomes) = agg.connectors
    /\ LET deduplicated == Deduplicate(agg.kind, agg.all_results)
       IN  agg' = [agg EXCEPT !.deduplicated = deduplicated,
                              !.sorted_results = SortedByRelevance(deduplicated),
                              !.pc = "returned"]
    /\ UNCHANGED <<pc, args, extracted, document_sections, document_content, error,
                   result, fill, api, analyzerVars, textVars>>

NextAgg == Search \/ Query \/ DeduplicateSortReturn

SpecAgg == Init /\ [][NextAgg]_vars

(* Claims about the aggregator *)

\* the records of the connectors that did not raise, in the order of the calls
Succeeded ==
    Concat([i \in 1..Len(agg.outcomes) |->
               IF agg.outcomes[i].raises THEN << >> ELSE agg.outcomes[i].results])

\* C8: a search propagates no exception, and what it returns is made of the
\* records of exactly the connectors that did not raise: every returned
\* record is one of theirs, every key of theirs is returned, the list is in
\* non-increasing relevance, and it is empty when every connector raised or
\* none is configured.
C8_PartialFailureTolerated ==
    /\ agg.pc # "raised"
    /\ agg.pc = "returned" =>
        /\ agg.error = "none"
        /\ Range(agg.sorted_results) \subseteq Range(Succeeded)
        /\ {KeyOf(agg.kind, r) : r \in Range(agg.sorted_results)}
               = {KeyOf(agg.kind, r) : r \in Range(Succeeded)}
        /\ \A i \in 1..(Len(agg.sorted_results) - 1) :
               agg.sorted_results[i].relevance >= agg.sorted_results[i + 1].relevance
        /\ (\A i \in 1..Len(agg.outcomes) : agg.outcomes[i].raises)
               => agg.sorted_results = << >>

\* a search has returned records although one of its connectors raised
C8_Witness ==
    /\ agg.pc = "returned"
    /\ \E i \in 1..Len(agg.outcomes) : agg.outcomes[i].raises
    /\ \E i \in 1..Len(agg.outcomes) : ~agg.outcomes[i].raises
    /\ agg.sorted_results # << >>

\* C9: no two entries of a returned list have the same key, (title,
\* sectionNumber) for law sections and citation for cases.
C9_NoDuplicateKey ==
    agg.pc = "returned" =>
        \A i, j \in 1..Len(agg.sorted_results) :
            KeyOf(agg.kind, agg.sorted_results[i]) = KeyOf(agg.kind, agg.sorted_results[j])
                => i = j

\* a search has returned although connectors that did not raise returned two
\* records with the same key
C9_Witness ==
    /\ agg.pc = "returned"
    /\ \E i, j \in 1..Len(Succeeded) :
          /\ i # j
          /\ KeyOf(agg.kind, Succeeded[i]) = KeyOf(agg.kind, Succeeded[j])

\* C10: the relevance of every returned record is the greatest relevance among
\* the records with its key that the connectors that did not raise returned.
C10_MaxRelevanceWins ==
    agg.pc = "returned" =>
        \A r \in Range(agg.sorted_results) :
            \A other \in Range(Succeeded) :
                KeyOf(agg.kind, other) = KeyOf(agg.kind, r)
                    => other.relevance <= r.relevance

\* a search has returned after a record of greater relevance followed a record
\* with the same key
C10_Witness ==
    /\ agg.pc = "returned"
    /\ \E i, j \in 1..Len(Succeeded) :
          /\ i < j
          /\ KeyOf(agg.kind, Succeeded[i]) = KeyOf(agg.kind, Succeeded[j])
          /\ Succeeded[i].relevance < Succeeded[j].relevance

\* the place of a record in the order in which the records were inserted
\* into all_results: connectors in configured order, then position within a
\* connector's result
InsertedAt(record) == CHOOSE i \in 1..Len(Succeeded) : Succeeded[i] = record

\* C11: a returned list is in non-increasing relevance, and two returned
\* records of equal relevance stand in the order in which those records were
\* inserted.
C11_TiesInInsertionOrder ==
    agg.pc = "returned" =>
        \A i, j \in 1..Len(agg.sorted_results) :
            i < j =>
                /\ agg.sorted_results[i].relevance >= agg.sorted_results[j].relevance
                /\ agg.sorted_results[i].relevance = agg.sorted_results[j].relevance
                       => InsertedAt(agg.sorted_results[i]) < InsertedAt(agg.sorted_results[j])

\* what the search returns when the connectors' outcomes arrive in the order
\* `order`, a permutation of their configured positions
ReturnedIn(order) ==
    SortedByRelevance(Deduplicate(agg.kind,
        Concat([i \in 1..Len(agg.outcomes) |->
                   QueryConnector(<< >>, agg.outcomes[order[i]]).all_results])))

\* C12: for fixed per-connector results the returned list is the same for
\* every order in which the connectors are invoked.
C12_SameForEveryOrder ==
    agg.pc = "returned" =>
        \A order \in Permutations(1..Len(agg.outcomes)) :
            ReturnedIn(order) = agg.sorted_results

----------------------------------------------------------------------------
(* api/case_file_drafter.py: CaseFileDrafter, the caller-facing drafter. *)
(* A document is a list of lines, a line a list of its parts.             *)

\* a brief with what the drafter's regular expressions find in it: group 1
\* of re.search for each petitioner and respondent pattern (<< >> for no
\* match), the groups of the versus pattern, and the sentences _extract_facts
\* keeps
ApiBriefs ==
    { [text |-> "",
       petitioner |-> << << >>, << >>, << >>, << >>, << >> >>,
       respondent |-> << << >>, << >>, << >>, << >> >>,
       vs |-> << >>,
       facts |-> << >>],
      [text |-> "Petitioner: Ram Kumar. Respondent: Acme Ltd. The respondent failed to deliver the goods by the agreed date.",
       petitioner |-> << <<"Ram Kumar">>, << >>, << >>, << >>, << >> >>,
       respondent |-> << <<"Acme Ltd">>, << >>, << >>, << >> >>,
       vs |-> << >>,
       facts |-> <<"Petitioner: Ram Kumar.", "Respondent: Acme Ltd.",
                   "The respondent failed to deliver the goods by the agreed date.">>],
      [text |-> "Ram Kumar versus Acme Ltd. The goods were never delivered to the buyer.",
       petitioner |-> << << >>, << >>, << >>, << >>, << >> >>,
       respondent |-> << << >>, << >>, << >>, << >> >>,
       vs |-> <<"Ram Kumar", "Acme Ltd">>,
       facts |-> <<"Ram Kumar versus Acme Ltd.",
                   "The goods were never delivered to the buyer.">>],
      [text |-> "Plaintiff: Ram Kumar. Sita Devi vs Acme Ltd. The goods were never delivered to the buyer.",
       petitioner |-> << << >>, <<"Ram Kumar">>, << >>, << >>, << >> >>,
       respondent |-> << << >>, << >>, << >>, << >> >>,
       vs |-> <<" Sita Devi", "Acme Ltd">>,
       facts |-> <<"Plaintiff: Ram Kumar.", "Sita Devi vs Acme Ltd.",
                   "The goods were never delivered to the buyer.">>],
      [text |-> "Petitioner: The Petitioner. Sita Devi vs Acme Ltd. The goods were never delivered to the buyer.",
       petitioner |-> << <<"The Petitioner">>, << >>, << >>, << >>, << >> >>,
       respondent |-> << << >>, << >>, << >>, << >> >>,
       vs |-> <<" Sita Devi", "Acme Ltd">>,
       facts |-> <<"Petitioner: The Petitioner.", "Sita Devi vs Acme Ltd.",
                   "The goods were never delivered to the buyer.">>] }

\* `for pattern in patterns: match = re.search(...); if match: ... break`
FirstMatch(matches, default) ==
    LET found == {i \in 1..Len(matches) : matches[i] # << >>}
    IN  IF found = {} THEN default
        ELSE StripName(matches[CHOOSE i \in found : \A j \in found : i <= j][1])

_extract_parties(brief) ==
    LET petitioner == FirstMatch(brief.petitioner, "The Petitioner")
        respondent == FirstMatch(brief.respondent, "The Respondent")
        match == brief.vs
    IN  [petitioner |-> IF match # << >> /\ petitioner \in {"", "The Petitioner"}
                        THEN StripName(match[1]) ELSE petitioner,
         respondent |-> IF match # << >> /\ respondent \in {"", "The Respondent"}
                        THEN StripName(match[2]) ELSE respondent]

_extract_facts(brief) == Take(brief.facts, 10)

_extract_legal_provisions(analysis_results) ==
    LET lawSections == Get(analysis_results, "lawSections", << >>)
    IN  [i \in 1..Len(lawSections) |->
            [act |-> Get(lawSections[i], "title", "Unknown Act"),
             section |-> Get(lawSections[i], "sectionNumber", "N/A"),
             content |-> Get(lawSections[i], "content", "")]]

_extract_case_precedents(analysis_results) ==
    LET caseHistories == Get(analysis_results, "caseHistories", << >>)
    IN  [i \in 1..Len(caseHistories) |->
            [citation |-> Get(caseHistories[i], "citation", "Unknown Citation"),
             parties |-> Get(caseHistories[i], "parties", "Unknown Parties"),
             holdings |-> Get(caseHistories[i], "holdings", "")]]

_extract_arguments(analysis_results) ==
    Get(Get(analysis_results, "analysis", EmptyDict), "arguments", << >>)

\* content.append(...) of lines without a replacement field; "" is the empty line
Literal(lines) == [i \in 1..Len(lines) |-> IF lines[i] = "" THEN << >> ELSE <<lines[i]>>]

\* `for i, item in enumerate(items, 1): content.append(...)`
Enumerated(items, Appended(_, _)) ==
    Concat([i \in 1..Len(items) |-> Appended(ToString(i), items[i])])

\* str.upper() of a court
UpperCourt(court) ==
    CASE court = "High Court" -> "HIGH COURT"
      [] court = "Supreme Court of India" -> "SUPREME COURT OF INDIA"

\* datetime.now().strftime(...) for '%d', '%B %Y' and "%d %B %Y"
TodayDay == "03"

TodayMonthYear == "November 2026"

TodayLong == "03 November 2026"

\* the caption the petition, reply, rejoinder, written statement and affidavit
\* open with
CourtCaption(court, number, parties, petitioner_role, respondent_role, heading) ==
    << <<"IN THE ", UpperCourt(court)>>, << >>, <<number>>, << >>,
       <<"IN THE MATTER OF:">>, << >>,
       <<parties.petitioner>>, <<petitioner_role>>, << >>,
       <<"VERSUS">>, << >>,
       <<parties.respondent>>, <<respondent_role>>, << >>,
       <<heading>>, << >> >>

\* the signature block the petition, reply, rejoinder and written statement
\* end with
FiledBy(advocate) ==
    << <<"FILED BY:">>, << >>, << >>, <<advocate>>, << >>,
       <<"PLACE: _____">>, <<"DATE: ", Today>> >>

\* "\n".join(content)
JoinLines(content) ==
    Concat([i \in 1..Len(content) |->
               IF i = 1 THEN content[i] ELSE <<"\n">> \o content[i]])

_generate_petition(parties, facts, legal_provisions, case_precedents, arguments, court, include_arguments, include_prayer) ==
    JoinLines(
        CourtCaption(court, "PETITION NO. _____ OF _____", parties,
                     "... PETITIONER", "... RESPONDENT", "PETITION UNDER _____")
        \o Literal(<<"MOST RESPECTFULLY SHOWETH:", "", "1. FACTS OF THE CASE:", "">>)
        \o Enumerated(facts, LAMBDA i, fact : << <<"   ", i, ". ", fact>> >>)
        \o Literal(<<"", "2. GROUNDS:", "">>)
        \o (IF legal_provisions # << >>
            THEN Literal(<<"   A. APPLICABLE LEGAL PROVISIONS:", "">>)
                 \o Enumerated(legal_provisions, LAMBDA i, provision :
                        << <<"      ", i, ". ", provision.act, ", Section ",
                             provision.section, ":">>,
                           <<"         ", provision.content>>, << >> >>)
            ELSE << >>)
        \o (IF case_precedents # << >>
            THEN Literal(<<"   B. RELEVANT CASE LAW:", "">>)
                 \o Enumerated(case_precedents, LAMBDA i, case :
                        << <<"      ", i, ". ", case.parties, " (", case.citation, "):">>,
                           <<"         ", case.holdings>>, << >> >>)
            ELSE << >>)
        \o (IF include_arguments /\ arguments # << >>
            THEN Literal(<<"   C. ARGUMENTS:", "">>)
                 \o Enumerated(arguments, LAMBDA i, argument :
                        << <<"      ", i, ". ", argument>> >>)
                 \o Literal(<<"">>)
            ELSE << >>)
        \o (IF include_prayer
            THEN Literal(<<"3. PRAYER:", "",
                   "   In view of the facts and circumstances of the case and the grounds mentioned above,",
                   "   it is most respectfully prayed that this Hon'ble Court may be pleased to:",
                   "", "   a) [SPECIFIC RELIEF SOUGHT]", "",
                   "   b) Pass any other order(s) as this Hon'ble Court may deem fit and proper in the",
                   "      interest of justice.", "">>)
            ELSE << >>)
        \o FiledBy("ADVOCATE FOR THE PETITIONER"))

_generate_reply(parties, facts, legal_provisions, case_precedents, arguments, court, include_arguments) ==
    JoinLines(
        CourtCaption(court, "CASE NO. _____ OF _____", parties,
                     "... PETITIONER/PLAINTIFF", "... RESPONDENT/DEFENDANT",
                     "REPLY ON BEHALF OF THE RESPONDENT/DEFENDANT")
        \o Literal(<<"1. PRELIMINARY OBJECTIONS:", "",
               "   The Respondent/Defendant submits the following preliminary objections:", "",
               "   a) The petition/plaint is not maintainable in law and on facts.",
               "   b) The petition/plaint is barred by limitation.",
               "   c) The petition/plaint does not disclose any cause of action.", "",
               "2. REPLY TO FACTS:", "">>)
        \o Enumerated(facts, LAMBDA i, fact :
               << <<"   ", i, ". With reference to paragraph ", i,
                    " of the petition/plaint, it is submitted that">>,
                  <<"      ", fact,
                    " - This is denied. The correct position is that [COUNTER FACT].">>,
                  << >> >>)
        \o (IF legal_provisions # << >>
            THEN Literal(<<"3. APPLICABLE LEGAL PROVISIONS:", "">>)
                 \o Enumerated(legal_provisions, LAMBDA i, provision :
                        << <<"   ", i, ". ", provision.act, ", Section ",
                             provision.section, ":">>,
                           <<"      The Petitioner/Plaintiff has misinterpreted this provision. The correct">>,
                           <<"      interpretation is that [INTERPRETATION].">>, << >> >>)
            ELSE << >>)
        \o (IF case_precedents # << >>
            THEN Literal(<<"4. RELEVANT CASE LAW:", "">>)
                 \o Enumerated(case_precedents, LAMBDA i, case :
                        << <<"   ", i, ". ", case.parties, " (", case.citation, "):">>,
                           <<"      This case is distinguishable on facts as [DISTINCTION].">>,
                           << >> >>)
            ELSE << >>)
        \o (IF include_arguments /\ arguments # << >>
            THEN Literal(<<"5. COUNTER ARGUMENTS:", "">>)
                 \o Enumerated(arguments, LAMBDA i, argument :
                        << <<"   ", i, ". In response to the argument that ", argument,
                             ", it is submitted that">>,
                           <<"      [COUNTER ARGUMENT].">> >>)
                 \o Literal(<<"">>)
            ELSE << >>)
        \o Literal(<<"6. PRAYER:", "",
               "   In view of the above submissions, it is most respectfully prayed that this Hon'ble",
               "   Court may be pleased to dismiss the petition/plaint with costs.", "">>)
        \o FiledBy("ADVOCATE FOR THE RESPONDENT/DEFENDANT"))

_generate_rejoinder(parties, facts, legal_provisions, case_precedents, arguments, court, include_arguments) ==
    JoinLines(
        CourtCaption(court, "CASE NO. _____ OF _____", parties,
                     "... PETITIONER/PLAINTIFF", "... RESPONDENT/DEFENDANT",
                     "REJOINDER ON BEHALF OF THE PETITIONER/PLAINTIFF")
        \o Literal(<<"1. INTRODUCTION:", "",
               "   The Petitioner/Plaintiff submits this rejoinder to the reply filed by the",
               "   Respondent/Defendant and reiterates the submissions made in the petition/plaint.",
               "   The Petitioner/Plaintiff further submits as under:", "",
               "2. REJOINDER TO PRELIMINARY OBJECTIONS:", "",
               "   a) The objection that the petition/plaint is not maintainable is baseless as",
               "      [REASON].",
               "   b) The petition/plaint is well within the limitation period as [REASON].",
               "   c) The petition/plaint clearly discloses a cause of action as [REASON].", "",
               "3. REJOINDER TO REPLY ON FACTS:", "">>)
        \o Enumerated(facts, LAMBDA i, fact :
               << <<"   ", i, ". The Respondent/Defendant has denied the fact that ", fact, ".">>,
                  <<"      This denial is false and misleading. The truth is that [EXPLANATION].">>,
                  << >> >>)
        \o (IF legal_provisions # << >>
            THEN Literal(<<"4. CORRECT INTERPRETATION OF LEGAL PROVISIONS:", "">>)
                 \o Enumerated(legal_provisions, LAMBDA i, provision :
                        << <<"   ", i, ". ", provision.act, ", Section ",
                             provision.section, ":">>,
                           <<"      The Respondent/Defendant has misinterpreted this provision. The correct">>,
                           <<"      interpretation, as submitted in the petition/plaint, is that [INTERPRETATION].">>,
                           << >> >>)
            ELSE << >>)
        \o (IF case_precedents # << >>
            THEN Literal(<<"5. APPLICABILITY OF CASE LAW:", "">>)
                 \o Enumerated(case_precedents, LAMBDA i, case :
                        << <<"   ", i, ". ", case.parties, " (", case.citation, "):">>,
                           <<"      The Respondent/Defendant's attempt to distinguish this case is misconceived.">>,
                           <<"      The ratio of this case is squarely applicable as [EXPLANATION].">>,
                           << >> >>)
            ELSE << >>)
        \o (IF include_arguments /\ arguments # << >>
            THEN Literal(<<"6. REBUTTAL TO COUNTER ARGUMENTS:", "">>)
                 \o Enumerated(arguments, LAMBDA i, argument :
                        << <<"   ", i, ". The Respondent/Defendant's counter to the argument that ",
                             argument>>,
                           <<"      is untenable because [REBUTTAL].">> >>)
                 \o Literal(<<"">>)
            ELSE << >>)
        \o Literal(<<"7. CONCLUSION:", "",
               "   In view of the above submissions, the Petitioner/Plaintiff reiterates the prayer",
               "   made in the petition/plaint and requests this Hon'ble Court to grant the relief",
               "   sought therein.", "">>)
        \o FiledBy("ADVOCATE FOR THE PETITIONER/PLAINTIFF"))

_generate_written_statement(parties, facts, legal_provisions, case_precedents, arguments, court, include_arguments) ==
    JoinLines(
        CourtCaption(court, "SUIT NO. _____ OF _____", parties,
                     "... PLAINTIFF", "... DEFENDANT",
                     "WRITTEN STATEMENT ON BEHALF OF THE DEFENDANT")
        \o Literal(<<"1. PRELIMINARY OBJECTIONS:", "",
               "   The Defendant raises the following preliminary objections:", "",
               "   a) This Hon'ble Court has no jurisdiction to try and entertain the present suit.",
               "   b) The suit is barred by limitation.",
               "   c) The plaint does not disclose any cause of action against the Defendant.",
               "   d) The suit is bad for non-joinder of necessary parties.", "",
               "2. PARAGRAPH-WISE REPLY:", "">>)
        \o Enumerated(facts, LAMBDA i, fact :
               << <<"   ", i, ". With reference to paragraph ", i,
                    " of the plaint, it is submitted that">>,
                  <<"      ", fact,
                    " - This is denied. The correct position is that [COUNTER FACT].">>,
                  << >> >>)
        \o Literal(<<"3. ADDITIONAL FACTS:", "", "   a) [ADDITIONAL FACT 1]",
               "   b) [ADDITIONAL FACT 2]", "   c) [ADDITIONAL FACT 3]", "">>)
        \o (IF legal_provisions # << >>
            THEN Literal(<<"4. LEGAL SUBMISSIONS:", "">>)
                 \o Enumerated(legal_provisions, LAMBDA i, provision :
                        << <<"   ", i, ". ", provision.act, ", Section ",
                             provision.section, ":">>,
                           <<"      The Plaintiff has misinterpreted this provision. The correct">>,
                           <<"      interpretation is that [INTERPRETATION].">>, << >> >>)
            ELSE << >>)
        \o (IF case_precedents # << >>
            THEN Literal(<<"5. CASE LAW:", "">>)
                 \o Enumerated(case_precedents, LAMBDA i, case :
                        << <<"   ", i, ". ", case.parties, " (", case.citation, "):">>,
                           <<"      This case is distinguishable on facts as [DISTINCTION].">>,
                           << >> >>)
            ELSE << >>)
        \o (IF include_arguments /\ arguments # << >>
            THEN Literal(<<"6. COUNTER ARGUMENTS:", "">>)
                 \o Enumerated(arguments, LAMBDA i, argument :
                        << <<"   ", i, ". In response to the argument that ", argument,
                             ", it is submitted that">>,
                           <<"      [COUNTER ARGUMENT].">> >>)
                 \o Literal(<<"">>)
            ELSE << >>)
        \o Literal(<<"7. PRAYER:", "",
               "   In view of the above submissions, it is most respectfully prayed that this Hon'ble",
               "   Court may be pleased to dismiss the suit with costs.", "",
               "VERIFICATION:", "",
               "I, [NAME], the Defendant above named, do hereby verify that the contents of",
               "paragraphs 1 to 7 are true and correct to the best of my knowledge and belief",
               "and nothing material has been concealed therefrom.", "">>)
        \o << <<"Verified at [PLACE] on this ", TodayDay, " day of ", TodayMonthYear, ".">> >>
        \o Literal(<<"", "DEFENDANT", "">>)
        \o FiledBy("ADVOCATE FOR THE DEFENDANT"))

_generate_legal_notice(parties, facts, legal_provisions, include_arguments, include_prayer) ==
    JoinLines(
        << <<"LEGAL NOTICE">>, << >>, <<"Date: ", Today>>, << >>,
           <<"To,">>, <<parties.respondent>>, <<"[ADDRESS]">>, << >>,
           <<"From,">>, <<parties.petitioner>>, <<"[ADDRESS]">>, << >> >>
        \o Literal(<<"Through,", "[ADVOCATE NAME]", "[ADVOCATE ADDRESS]", "",
               "Subject: Legal Notice for [SUBJECT MATTER]", "", "Sir/Madam,", "",
               "Under instructions from and on behalf of my client, I hereby serve upon you the following legal notice:",
               "", "1. FACTS:", "">>)
        \o Enumerated(facts, LAMBDA i, fact : << <<"   ", i, ". ", fact>> >>)
        \o Literal(<<"">>)
        \o (IF legal_provisions # << >>
            THEN Literal(<<"2. LEGAL PROVISIONS:", "">>)
                 \o Enumerated(legal_provisions, LAMBDA i, provision :
                        << <<"   ", i, ". As per ", provision.act, ", Section ",
                             provision.section, ":">>,
                           <<"      ", provision.content>>, << >> >>)
            ELSE << >>)
        \o Literal(<<"3. DEMAND:", "",
               "   In view of the above facts and legal provisions, my client hereby calls upon you to:",
               "", "   a) [SPECIFIC DEMAND 1]", "   b) [SPECIFIC DEMAND 2]",
               "   c) [SPECIFIC DEMAND 3]", "",
               "4. TIME LIMIT:", "",
               "   You are hereby called upon to comply with the above demands within [NUMBER] days",
               "   from the receipt of this notice, failing which my client will be constrained to",
               "   initiate appropriate legal proceedings against you, civil and/or criminal, at your",
               "   risk, cost, and consequences.", "",
               "5. RESERVATION OF RIGHTS:", "",
               "   This notice is being issued without prejudice to any other rights and remedies",
               "   available to my client under law, which are expressly reserved.", "",
               "Yours faithfully,", "", "", "[ADVOCATE NAME]", "Advocate for the Noticee">>))

_generate_affidavit(parties, facts, court) ==
    JoinLines(
        CourtCaption(court, "CASE NO. _____ OF _____", parties,
                     "... PETITIONER/PLAINTIFF", "... RESPONDENT/DEFENDANT", "AFFIDAVIT")
        \o Literal(<<"I, [NAME], aged about [AGE] years, [OCCUPATION], resident of [ADDRESS], do hereby",
               "solemnly affirm and state on oath as under:", "">>)
        \o Enumerated(facts, LAMBDA i, fact : << <<i, ". ", fact>> >>)
        \o Literal(<<"", "VERIFICATION:", "",
               "I, the deponent above named, do hereby verify that the contents of paragraphs 1 to">>)
        \o << <<ToString(Len(facts)),
                " are true and correct to my knowledge and belief and nothing material">> >>
        \o Literal(<<"has been concealed therefrom.", "">>)
        \o << <<"Verified at [PLACE] on this ", TodayDay, " day of ", TodayMonthYear, ".">> >>
        \o Literal(<<"", "DEPONENT">>))

\* str.lower() of a document type
Lower(document_type) ==
    CASE document_type = "Reply" -> "reply"
      [] document_type = "REJOINDER" -> "rejoinder"
      [] document_type = "Affidavit" -> "affidavit"
      [] document_type = "Summons" -> "summons"
      [] OTHER -> document_type

\* the if/elif chain over document_type with its else branch, "Default to
\* petition if document type is not recognized"
ContentAndTitle(document_type, parties, facts, legal_provisions, case_precedents, arguments, court, include_arguments, include_prayer) ==
    LET versus == <<" - ", parties.petitioner, " vs. ", parties.respondent>>
    IN  CASE document_type = "petition" ->
               [content |-> _generate_petition(parties, facts, legal_provisions,
                                case_precedents, arguments, court, include_arguments,
                                include_prayer),
                title |-> <<"PETITION">> \o versus]
          [] document_type = "reply" ->
               [content |-> _generate_reply(parties, facts, legal_provisions,
                                case_precedents, arguments, court, include_arguments),
                title |-> <<"REPLY">> \o versus]
          [] document_type = "rejoinder" ->
               [content |-> _generate_rejoinder(parties, facts, legal_provisions,
                                case_precedents, arguments, court, include_arguments),
                title |-> <<"REJOINDER">> \o versus]
          [] document_type = "written_statement" ->
               [content |-> _generate_written_statement(parties, facts, legal_provisions,
                                case_precedents, arguments, court, include_arguments),
                title |-> <<"WRITTEN STATEMENT">> \o versus]
          [] document_type = "legal_notice" ->
               [content |-> _generate_legal_notice(parties, facts, legal_provisions,
                                include_arguments, include_prayer),
                title |-> <<"LEGAL NOTICE - ", parties.petitioner, " to ",
                            parties.respondent>>]
          [] document_type = "affidavit" ->
               [content |-> _generate_affidavit(parties, facts, court),
                title |-> <<"AFFIDAVIT - ", parties.petitioner>>]
          [] OTHER ->
               [content |-> _generate_petition(parties, facts, legal_provisions,
                                case_precedents, arguments, court, include_arguments,
                                include_prayer),
                title |-> <<"PETITION">> \o versus]

\* the analysis results a caller passes
AnalysisResults ==
    { EmptyDict,
      [lawSections |-> <<LawSection73>>,
       caseHistories |-> <<CaseMehta>>,
       analysis |-> [arguments |-> <<"The defendant's actions constitute a clear breach of contract.">>]] }

\* the options a caller passes: each key present or absent
DrafterOptions ==
    { document_type @@ court @@ include_arguments @@ include_prayer :
        document_type \in {EmptyDict} \cup
            {[document_type |-> t] : t \in TemplateTypes \cup
                {"Reply", "REJOINDER", "Affidavit", "summons", "Summons", ""}},
        court \in {EmptyDict, [court |-> "Supreme Court of India"]},
        include_arguments \in {EmptyDict, [include_arguments |-> FALSE]},
        include_prayer \in {EmptyDict, [include_prayer |-> FALSE]} }

\* CaseFileDrafter().draft_case_file(brief_text, analysis_results, options) is called
DrafterCall ==
    /\ api.pc = "idle"
    /\ \E brief \in ApiBriefs, analysis_results \in AnalysisResults,
          options \in DrafterOptions :
          api' = [pc |-> "called", brief |-> brief,
                  analysis_results |-> analysis_results, options |-> options]
    /\ UNCHANGED <<pc, args, extracted, document_sections, document_content, error,
                   result, fill, agg, analyzerVars, textVars>>

\* "Extract key information from the brief and analysis results"
DrafterExtract ==
    /\ api.pc = "called"
    /\ api' = [api EXCEPT !.pc = "extracted"] @@
              [parties |-> _extract_parties(api.brief),
               facts |-> _extract_facts(api.brief),
               legal_provisions |-> _extract_legal_provisions(api.analysis_results),
               case_precedents |-> _extract_case_precedents(api.analysis_results),
               arguments |-> _extract_arguments(api.analysis_results)]
    /\ UNCHANGED <<pc, args, extracted, document_sections, document_content, error,
                   result, fill, agg, analyzerVars, textVars>>

\* "Determine document type and generate appropriate content"
DrafterGenerate ==
    /\ api.pc = "extracted"
    /\ LET document_type == Lower(Get(api.options, "document_type", "petition"))
           court == Get(api.options, "court", "High Court")
           generated == ContentAndTitle(document_type, api.parties, api.facts,
                            api.legal_provisions, api.case_precedents, api.arguments,
                            court, Get(api.options, "include_arguments", TRUE),
                            Get(api.options, "include_prayer", TRUE))
       IN  api' = [api EXCEPT !.pc = "generated"] @@
                  [document_type |-> document_type, court |-> court,
                   content |-> generated.content, title |-> generated.title]
    /\ UNCHANGED <<pc, args, extracted, document_sections, document_content, error,
                   result, fill, agg, analyzerVars, textVars>>

\* `return {...}`
DrafterReturn ==
    /\ api.pc = "generated"
    /\ api' = [api EXCEPT !.pc = "returned"] @@
              [result |-> [title |-> api.title, content |-> api.content,
                           document_type |-> api.document_type, court |-> api.court,
                           date |-> TodayLong, parties |-> api.parties]]
    /\ UNCHANGED <<pc, args, extracted, document_sections, document_content, error,
                   result, fill, agg, analyzerVars, textVars>>

NextApi == DrafterCall \/ DrafterExtract \/ DrafterGenerate \/ DrafterReturn

SpecApi == Init /\ [][NextApi]_vars

\* C2: the caller-facing draft_case_file returns no document for a document
\* type that is not one of the six catalog types.
C2_UnsupportedTypeNeverDrafted ==
    api.pc = "returned" => api.result.document_type \in TemplateTypes

----------------------------------------------------------------------------
(* backend/services/inlegalbert_processor.py: InLegalBERTProcessor, a class *)
(* that keeps one instance in the class attribute _instance.  Threads call *)
(* InLegalBERTProcessor() and take one statement at a time.                *)

\* the most threads that construct the processor
MaxThreads == 2

\* `None`
None == 0

\* what object.__new__ returns: an object with no attribute set yet
\* (_initialized is "unset", later "False" or "True"); tokenizer and model
\* count the times the attribute was assigned
NewObject == [_initialized |-> "unset", tokenizer |-> 0, model |-> 0]

\* a thread calls InLegalBERTProcessor()
Construct ==
    /\ Len(bert.threads) < MaxThreads
    /\ bert' = [bert EXCEPT !.threads = Append(@, [pc |-> "new", self |-> None])]
    /\ UNCHANGED <<drafterVars, textVars, cit, syn, gsq, dom, srch>>

\* __new__(cls), lines 9-13, one statement of thread t
__new__(t) ==
    /\ t \in 1..Len(bert.threads)
    /\ \/ \* `if cls._instance is None:`
          /\ bert.threads[t].pc = "new"
          /\ bert' = [bert EXCEPT !.threads[t].pc =
                         IF bert._instance = None THEN "create" ELSE "return"]
       \/ \* `cls._instance = super(InLegalBERTProcessor, cls).__new__(cls)`
          /\ bert.threads[t].pc = "create"
          /\ bert' = [bert EXCEPT !.objects = Append(@, NewObject),
                                  !._instance = Len(bert.objects) + 1,
                                  !.threads[t].pc = "mark"]
       \/ \* `cls._instance._initialized = False`
          /\ bert.threads[t].pc = "mark"
          /\ bert' = [bert EXCEPT !.objects[bert._instance]._initialized = "False",
                                  !.threads[t].pc = "return"]
       \/ \* `return cls._instance`; type.__call__ then calls __init__ on it
          /\ bert.threads[t].pc = "return"
          /\ bert' = [bert EXCEPT !.threads[t].self = bert._instance,
                                  !.threads[t].pc = "init"]
    /\ UNCHANGED <<drafterVars, textVars, cit, syn, gsq, dom, srch>>

\* __init__(self), lines 15-24, one statement of thread t
__init__(t) ==
    /\ t \in 1..Len(bert.threads)
    /\ LET self == bert.threads[t].self
       IN  \/ \* `if self._initialized: return`; the attribute may not be set yet
              /\ bert.threads[t].pc = "init"
              /\ bert' = [bert EXCEPT !.threads[t].pc =
                             CASE bert.objects[self]._initialized = "unset" -> "AttributeError"
                               [] bert.objects[self]._initialized = "True" -> "done"
                               [] OTHER -> "tokenizer"]
           \/ \* `self.tokenizer = AutoTokenizer.from_pretrained(...)`
              /\ bert.threads[t].pc = "tokenizer"
              /\ bert' = [bert EXCEPT !.objects[self].tokenizer = @ + 1,
                                      !.threads[t].pc = "model"]
           \/ \* `self.model = AutoModel.from_pretrained(...).to(self.device)`
              /\ bert.threads[t].pc = "model"
              /\ bert' = [bert EXCEPT !.objects[self].model = @ + 1,
                                      !.threads[t].pc = "initialized"]
           \/ \* `self.cache = CacheManager()`, `self._initialized = True`
              /\ bert.threads[t].pc = "initialized"
              /\ bert' = [bert EXCEPT !.objects[self]._initialized = "True",
                                      !.threads[t].pc = "done"]
    /\ UNCHANGED <<drafterVars, textVars, cit, syn, gsq, dom, srch>>

NextSingleton == Construct \/ \E t \in 1..MaxThreads : __new__(t) \/ __init__(t)

SpecSingleton == Init /\ [][NextSingleton]_vars

\* C13: however the constructions interleave, at most one instance is
\* created, its tokenizer and its model are loaded at most once, so the model
\* is never assigned again after the initialization has completed, and no
\* construction fails.
C13_InitializedOnce ==
    /\ Len(bert.objects) <= 1
    /\ \A o \in 1..Len(bert.objects) :
          bert.objects[o].tokenizer <= 1 /\ bert.objects[o].model <= 1
    /\ \A t \in 1..Len(bert.threads) : bert.threads[t].pc # "AttributeError"

----------------------------------------------------------------------------
(* _extract_citations of legal_brief_analyzer.py and of                    *)
(* legal_brief_analyzer_with_inlegalbert.py.  A brief is a list of words,  *)
(* the text being the words joined by single spaces.                       *)

\* the most words of a brief
MaxWords == 4

\* the words \d{4} matches, and the words \d+ matches
YearWords == {"2017"}
DigitWords == YearWords \cup {"5", "567"}

\* the words of the briefs; "(2019)" is a year in parentheses
CitationWords == DigitWords \cup {"(2019)", "AIR", "SC", "SCC", "SCR"}

\* a pattern is the list of the words it matches in turn, separated by \s* or
\* \s+: "d4" is (\d{4}), "d" is (\d+), "(d4)" is \((\d{4})\), anything else
\* is the literal word
air_pattern == <<"d4", "AIR", "d">>
scc_pattern == <<"(d4)", "d", "SCC", "d">>
scr_pattern == <<"d4", "SCR", "d">>

\* the list citation_patterns of the tiered analyzer, lines 234-246
citation_patterns ==
    << <<"d4", "d", "SCC", "d">>, <<"AIR", "d4", "SC", "d">>,
       <<"d4", "d", "BomLR", "d">>, <<"AIR", "d4", "Bom", "d">>,
       <<"AIR", "d4", "Del", "d">>, <<"AIR", "d4", "Cal", "d">>,
       <<"AIR", "d4", "Mad", "d">>, <<"d4", "d", "SCR", "d">>,
       <<"d4", "d", "SCJ", "d">> >>

\* the word fits the element of a pattern
Fits(word, element) ==
    CASE element = "d4" -> word \in YearWords
      [] element = "d" -> word \in DigitWords
      [] element = "(d4)" -> word = "(2019)"
      [] OTHER -> word = element

\* the pattern matches the words from position i on
MatchAt(pattern, words, i) ==
    /\ i + Len(pattern) - 1 <= Len(words)
    /\ \A k \in 1..Len(pattern) : Fits(words[i + k - 1], pattern[k])

\* the groups of the match at position i: the digits of the words that fit a
\* group of the pattern
Groups(pattern, words, i) ==
    LET at == {k \in 1..Len(pattern) : pattern[k] \in {"d4", "d", "(d4)"}}
        digits(w) == IF w = "(2019)" THEN "2019" ELSE w
        RECURSIVE from(_)
        from(k) == IF k > Len(pattern) THEN << >>
                   ELSE (IF k \in at THEN <<digits(words[i + k - 1])>> ELSE << >>)
                        \o from(k + 1)
    IN  from(1)

\* re.finditer / re.findall: the groups of the matches that do not overlap,
\* from the left
RECURSIVE FindAll(_, _, _)
FindAll(pattern, words, i) ==
    IF i > Len(words) THEN << >>
    ELSE IF MatchAt(pattern, words, i)
         THEN <<Groups(pattern, words, i)>> \o FindAll(pattern, words, i + Len(pattern))
         ELSE FindAll(pattern, words, i + 1)

\* legal_brief_analyzer.py, _extract_citations, lines 187-230
_extract_citations(words) ==
    LET air == FindAll(air_pattern, words, 1)
        scc == FindAll(scc_pattern, words, 1)
        scr == FindAll(scr_pattern, words, 1)
    IN  [raised |-> "none",
         citations |->
             [m \in 1..Len(air) |-> [type |-> "AIR", year |-> air[m][1], page |-> air[m][2]]]
          \o [m \in 1..Len(scc) |-> [type |-> "SCC", year |-> scc[m][1],
                                     volume |-> scc[m][2], page |-> scc[m][3]]]
          \o [m \in 1..Len(scr) |-> [type |-> "SCR", year |-> scr[m][1], page |-> scr[m][2]]]]

\* `year, volume, page = match` raises ValueError unless the tuple has three
\* values
Unpacks(match) == Len(match) = 3

\* legal_brief_analyzer_with_inlegalbert.py, _extract_citations, lines
\* 219-265: the loop over the patterns and over the matches of each
RECURSIVE ExtractFrom(_, _, _, _)
ExtractFrom(words, p, m, citations) ==
    IF p > Len(citation_patterns) THEN [raised |-> "none", citations |-> citations]
    ELSE LET pattern == citation_patterns[p]
             matches == FindAll(pattern, words, 1)
         IN  IF m > Len(matches) THEN ExtractFrom(words, p + 1, 1, citations)
             ELSE IF ~Unpacks(matches[m])
                  THEN [raised |-> "ValueError", citations |-> citations]
                  ELSE LET year == matches[m][1]
                           volume == matches[m][2]
                           page == matches[m][3]
                       IN  ExtractFrom(words, p, m + 1, Append(citations,
                               [year |-> year, volume |-> volume, page |-> page,
                                citation |-> IF "SCC" \in Range(pattern)
                                             THEN <<year, " ", volume, " SCC ", page>>
                                             ELSE <<"AIR ", year, " SC ", page>>,
                                relevance |-> "0.9"]))

_extract_citations_inlegalbert(words) == ExtractFrom(words, 1, 1, << >>)

\* the briefs: every list of at most MaxWords words
CitationBriefs == UNION {[1..n -> CitationWords] : n \in 0..MaxWords}

\* _extract_citations of one of the two analyzers is called on a brief
CitationsCall ==
    /\ cit.pc = "idle"
    /\ \E analyzer \in {"legal_brief_analyzer", "legal_brief_analyzer_with_inlegalbert"},
          words \in CitationBriefs :
          cit' = [pc |-> "called", analyzer |-> analyzer, words |-> words]
    /\ UNCHANGED <<drafterVars, textVars, bert, syn, gsq, dom, srch>>

\* the call returns its list or raises
CitationsReturn ==
    /\ cit.pc = "called"
    /\ LET outcome == IF cit.analyzer = "legal_brief_analyzer"
                      THEN _extract_citations(cit.words)
                      ELSE _extract_citations_inlegalbert(cit.words)
       IN  cit' = [cit EXCEPT !.pc = IF outcome.raised = "none" THEN "returned" ELSE "raised"]
                  @@ outcome
    /\ UNCHANGED <<drafterVars, textVars, bert, syn, gsq, dom, srch>>

NextCitations == CitationsCall \/ CitationsReturn

SpecCitations == Init /\ [][NextCitations]_vars

\* C14: on every brief each citation extractor returns a list and raises
\* nothing.
C14_ExtractorsNeverRaise ==
    cit.pc # "raised"

----------------------------------------------------------------------------
(* The analysis synthesizers: LegalAnalysisGenerator of legal_backend.py,  *)
(* _generate_analysis of legal_brief_analyzer.py and of                    *)
(* legal_brief_analyzer_with_inlegalbert.py.  A generated sentence is the  *)
(* list of the parts its f-string puts together.                           *)

\* the longest law_sections list and the longest case_histories list
MaxSections == 3
MaxCases == 3

\* a law section whose content is empty, as _extract_clean_content returns
\* for a document with no text
LawSectionEmpty ==
    [title |-> "Unknown Act", sectionNumber |-> "N/A", content |-> "", relevance |-> 7]

\* a case whose holdings are empty
CaseEmpty ==
    [citation |-> "Unknown Citation", parties |-> "Unknown Parties", holdings |-> "",
     relevance |-> 7]

\* `content[:100] + "..."` when len(content) > 100
Clipped(content) ==
    IF content \in LongContents
    THEN "When a contract has been broken, the party who suffers by such breach is entitled to receive, from t..."
    ELSE content

\* the list left as it is
NotExtended(list, generic, least) == list

\* `list.extend(generic[:least - len(list)])` under `if len(list) < least:`
ExtendTo(list, generic, least) ==
    IF Len(list) < least THEN list \o Take(generic, least - Len(list)) ELSE list

\* legal_backend.py, LegalAnalysisGenerator._generate_arguments, lines 624-651
Backend_generate_arguments(law_sections, case_histories) ==
    LET sections == Take(law_sections, 3)
        cases == Take(case_histories, 2)
        generic_arguments ==
          <<"The facts presented establish a prima facie case that meets all statutory requirements.",
            "The opposing party's actions constitute a clear violation of established legal principles.",
            "Procedural irregularities in the opposing party's approach undermine their position.">>
        arguments ==
          [i \in 1..Len(sections) |->
              <<"Under ", sections[i].title, " Section ", sections[i].sectionNumber,
                ", you can argue that ", Clipped(sections[i].content)>>]
          \o [i \in 1..Len(cases) |->
              <<"The precedent established in ", cases[i].parties, " (", cases[i].citation,
                ") supports the position that ", cases[i].holdings>>]
    IN  Take(ExtendTo(arguments, generic_arguments, 3), 5)

\* a list of the sentences whose condition holds, in order
Selected(choices) ==
    Concat([i \in 1..Len(choices) |-> IF choices[i][1] THEN <<choices[i][2]>> ELSE << >>])

\* legal_backend.py, LegalAnalysisGenerator._generate_challenges, lines 653-683
Backend_generate_challenges(brief_analysis) ==
    LET generic_challenges ==
          <<"Establishing sufficient evidence to meet the burden of proof may be challenging.",
            "The opposing party may argue that the statute of limitations has expired.",
            "Jurisdictional issues could arise if the matter crosses state boundaries.",
            "Proving the requisite intent element may be difficult without direct evidence.",
            "Quantifying damages precisely could be challenging without expert testimony.">>
        domains == Get(brief_analysis, "domains", <<"general">>)
        challenges == Selected(<<
          <<In("criminal", domains),
            "Proving criminal intent beyond reasonable doubt will require substantial evidence.">>,
          <<In("civil", domains),
            "Establishing causation between the breach and claimed damages may be difficult.">>,
          <<In("constitutional", domains),
            "Constitutional challenges face a high standard of review from the courts.">> >>)
    IN  Take(ExtendTo(challenges, generic_challenges, 3), 4)

\* legal_backend.py, LegalAnalysisGenerator._generate_recommendations, lines 685-722
Backend_generate_recommendations(brief_analysis, case_histories) ==
    LET generic_recommendations ==
          <<"Gather all documentary evidence to support factual assertions in the case.",
            "Consider engaging expert witnesses to strengthen technical aspects of the case.",
            "Prepare detailed affidavits from all relevant witnesses.",
            "Explore alternative dispute resolution options before proceeding to trial.",
            "Conduct thorough research on the presiding judge's previous rulings in similar cases.">>
        domains == Get(brief_analysis, "domains", <<"general">>)
        recommendations == Selected(<<
          <<In("criminal", domains),
            "Scrutinize the investigation procedure for any procedural lapses that could be challenged.">>,
          <<In("civil", domains),
            "Quantify damages precisely with supporting documentation and expert opinions.">>,
          <<In("corporate", domains),
            "Review all corporate governance documents and board resolutions relevant to the matter.">>,
          <<Truthy(case_histories),
            IF Truthy(case_histories)
            THEN <<"Cite ", case_histories[1].parties,
                   " prominently in submissions as it establishes favorable precedent.">>
            ELSE << >> >> >>)
    IN  Take(ExtendTo(recommendations, generic_recommendations, 4), 5)

\* legal_brief_analyzer.py, _generate_arguments, lines 749-809; noun_chunks is
\* what spaCy finds in a section's content, holdings are one sentence long
Analyzer_generate_arguments(law_sections, case_histories, noun_chunks) ==
    LET sections == Take(law_sections, 3)
        cases == Take(case_histories, 3)
        generic_arguments ==
          <<"The facts presented in the brief clearly establish the elements required for the legal claim.",
            "The timeline of events demonstrates a clear causal relationship between the actions and the resulting damages.",
            "The documentary evidence supports the legal position outlined in the brief.",
            "The opposing party's actions constitute a clear violation of the applicable legal standards.",
            "The legal precedents consistently support the interpretation of the law as presented in the brief.">>
        arguments ==
          Selected([i \in 1..Len(sections) |->
              <<sections[i].content # "",
                <<"Under ", sections[i].title, ", Section ", sections[i].sectionNumber, ", ">>
                \o (IF Truthy(noun_chunks)
                    THEN <<"the elements of ", noun_chunks[1], " are applicable to this case.">>
                    ELSE <<"the legal provisions are applicable to the facts of this case.">>)>>])
          \o Selected([i \in 1..Len(cases) |->
              <<cases[i].holdings # "",
                <<"The precedent established in ", cases[i].parties, " (", cases[i].citation,
                  ") supports the position that ", cases[i].holdings>> >>])
    IN  Take(ExtendTo(arguments, generic_arguments, 3), 5)

\* legal_brief_analyzer.py, _generate_challenges, lines 811-853
Analyzer_generate_challenges(law_sections, case_histories) ==
    LET sections == Take(law_sections, 2)
        cases == Take(case_histories, 2)
        generic_challenges ==
          <<"The evidence presented may be insufficient to establish all elements of the legal claim.",
            "There may be procedural hurdles that need to be addressed before the substantive issues can be resolved.",
            "The interpretation of the relevant statutes may be contested by the opposing party.",
            "The causal connection between the alleged actions and the claimed damages may be difficult to establish.",
            "The timeline of events may present challenges in establishing the sequence necessary for the legal claim.">>
        challenges ==
          [i \in 1..Len(sections) |->
              <<"The opposing party may argue that ", sections[i].title, ", Section ",
                sections[i].sectionNumber, " ",
                "does not apply due to specific factual differences in this case.">>]
          \o [i \in 1..Len(cases) |->
              <<"The precedent in ", cases[i].parties, " may be distinguished on grounds that ",
                "the factual circumstances differ significantly from the current case.">>]
    IN  Take(ExtendTo(challenges, generic_challenges, 3), 5)

\* legal_brief_analyzer.py, _generate_recommendations, lines 855-903
Analyzer_generate_recommendations(law_sections, case_histories) ==
    LET sections == Take(law_sections, 2)
        cases == Take(case_histories, 2)
        general_recommendations ==
          <<"Gather and organize all documentary evidence that supports the factual claims made in the brief.",
            "Consider obtaining expert testimony to strengthen the technical aspects of the case.",
            "Prepare for potential settlement discussions, as many cases are resolved before trial.",
            "Develop counter-arguments to address the potential challenges identified above.",
            "Ensure all procedural requirements are met to avoid unnecessary delays in the legal proceedings.">>
        recommendations == Selected(<<
          <<Truthy(law_sections),
            <<"Strengthen the legal argument by specifically citing ">>
            \o Join([i \in 1..Len(sections) |->
                       <<sections[i].title, ", Section ", sections[i].sectionNumber>>], " and ")
            \o <<" and explaining how the facts of the case satisfy the legal requirements.">> >>,
          <<Truthy(case_histories),
            <<"Cite relevant precedents such as ">>
            \o Join([i \in 1..Len(cases) |->
                       <<cases[i].parties, " (", cases[i].citation, ")">>], " and ")
            \o <<" to support the legal arguments.">> >> >>)
    IN  Take(recommendations \o general_recommendations, 7)

\* two of the mock_sections of _mock_law_sections, lines 373-388 and 401-407
MockSections ==
    << [act |-> "Indian Penal Code", section |-> "302", title |-> "Punishment for murder",
        content |-> "Whoever commits murder shall be punished with death, or imprisonment for life, and shall also be liable to fine.",
        relevance |-> "0.95"],
       [act |-> "Constitution of India", section |-> "21",
        title |-> "Protection of life and personal liberty",
        content |-> "No person shall be deprived of his life or personal liberty except according to procedure established by law.",
        relevance |-> "0.9"] >>

\* two of the mock_cases of _mock_case_histories, lines 460-477
MockCases ==
    << [title |-> "Mohd. Ahmed Khan v. Shah Bano Begum", citation |-> "AIR 1985 SC 945",
        court |-> "Supreme Court of India", date |-> "23 April 1985",
        summary |-> "The Supreme Court ruled in favor of granting maintenance to a divorced Muslim woman under Section 125 of the Code of Criminal Procedure, holding that the provision applies to all citizens regardless of religion.",
        relevance |-> "0.9"],
       [title |-> "Kesavananda Bharati v. State of Kerala", citation |-> "(1973) 4 SCC 225",
        court |-> "Supreme Court of India", date |-> "24 April 1973",
        summary |-> "The Supreme Court established the basic structure doctrine, holding that the Parliament cannot amend the Constitution in a way that destroys its basic structure.",
        relevance |-> "0.85"] >>

\* legal_brief_analyzer_with_inlegalbert.py, _generate_analysis, lines
\* 519-624: the three lists of the analysis; domain_names is
\* `[d['domain'] for d in domains]`
Tiered_generate_analysis(domain_names, law_sections, case_histories) ==
    LET sections == Take(law_sections, 3)
        cases == Take(case_histories, 2)
    IN  [arguments |->
            [i \in 1..Len(sections) |->
                [title |-> <<"Application of ", sections[i].act, " Section ", sections[i].section>>,
                 content |-> <<"The provisions of ", sections[i].act, " Section ",
                               sections[i].section, " (", sections[i].title,
                               ") may apply in this case. The section states: '",
                               sections[i].content, "'">>]]
            \o [i \in 1..Len(cases) |->
                [title |-> <<"Precedent from ", cases[i].title>>,
                 content |-> <<"The ruling in ", cases[i].title, " (", cases[i].citation,
                               ") may be relevant: ", cases[i].summary>>]],
         challenges |-> Selected(<<
            <<Truthy(law_sections),
              IF Truthy(law_sections)
              THEN [title |-> "Interpretation of Statutory Provisions",
                    content |-> <<"The interpretation and applicability of ", law_sections[1].act,
                                  " Section ", law_sections[1].section,
                                  " may be challenged based on the specific facts of this case.">>]
              ELSE << >> >>,
            <<Truthy(case_histories),
              IF Truthy(case_histories)
              THEN [title |-> "Distinguishing Precedents",
                    content |-> <<"The precedent in ", case_histories[1].title,
                                  " may be distinguished based on factual differences.">>]
              ELSE << >> >> >>),
         recommendations |-> Selected(<<
            <<TRUE, [title |-> "Further Legal Research",
                     content |-> "Conduct in-depth research on the identified legal provisions and precedents to strengthen the case."]>>,
            <<TRUE, [title |-> "Evidence Collection",
                     content |-> "Gather additional evidence to support the application or distinction of the identified legal principles."]>>,
            <<In("Criminal Law", domain_names),
              [title |-> "Criminal Procedure Compliance",
               content |-> "Ensure all procedural requirements under the Code of Criminal Procedure are strictly followed."]>>,
            <<In("Civil Law", domain_names),
              [title |-> "Settlement Exploration",
               content |-> "Consider exploring settlement options before proceeding to full litigation."]>> >>)]

\* every list of at most n elements of the set
ListsOf(set, n) == UNION {[1..k -> set] : k \in 0..n}

\* the lists of distinct elements of the set, at most n long
DistinctListsOf(set, n) ==
    {list \in ListsOf(set, n) : \A i, j \in 1..Len(list) : list[i] = list[j] => i = j}

\* the brief_analysis dicts: with no "domains", with the sentinel, with real
\* domains
SynthesizerBriefAnalyses ==
    {EmptyDict, [domains |-> <<"general">>]} \cup
    {[domains |-> d] : d \in DistinctListsOf({"criminal", "civil", "constitutional", "corporate"}, 3)
                              \ {<< >>}}

\* one of the three synthesizers is called
SynthesizerCall ==
    /\ syn.pc = "idle"
    /\ \/ \E brief_analysis \in SynthesizerBriefAnalyses,
             law_sections \in ListsOf({LawSection73, LawSection10}, MaxSections),
             case_histories \in ListsOf({CaseMehta, CaseSharma}, MaxCases) :
             syn' = [pc |-> "called", synthesizer |-> "legal_backend",
                     brief_analysis |-> brief_analysis, law_sections |-> law_sections,
                     case_histories |-> case_histories]
       \/ \E noun_chunks \in {<< >>, <<"the party">>},
             law_sections \in ListsOf({LawSection73, LawSectionEmpty}, MaxSections),
             case_histories \in ListsOf({CaseMehta, CaseEmpty}, MaxCases) :
             syn' = [pc |-> "called", synthesizer |-> "legal_brief_analyzer",
                     noun_chunks |-> noun_chunks, law_sections |-> law_sections,
                     case_histories |-> case_histories]
       \/ \E domain_names \in DistinctListsOf({"Criminal Law", "Civil Law", "Property Law"}, 3),
             law_sections \in ListsOf(Range(MockSections), MaxSections),
             case_histories \in ListsOf(Range(MockCases), MaxCases) :
             syn' = [pc |-> "called", synthesizer |-> "legal_brief_analyzer_with_inlegalbert",
                     domain_names |-> domain_names, law_sections |-> law_sections,
                     case_histories |-> case_histories]
    /\ UNCHANGED <<drafterVars, textVars, bert, cit, gsq, dom, srch>>

\* generate_analysis / _generate_analysis returns its dict
SynthesizerReturn ==
    /\ syn.pc = "called"
    /\ syn' = [syn EXCEPT !.pc = "returned"] @@
         CASE syn.synthesizer = "legal_backend" ->
                [arguments |-> Backend_generate_arguments(syn.law_sections, syn.case_histories),
                 challenges |-> Backend_generate_challenges(syn.brief_analysis),
                 recommendations |->
                     Backend_generate_recommendations(syn.brief_analysis, syn.case_histories)]
           [] syn.synthesizer = "legal_brief_analyzer" ->
                [arguments |-> Analyzer_generate_arguments(syn.law_sections, syn.case_histories,
                                                           syn.noun_chunks),
                 challenges |-> Analyzer_generate_challenges(syn.law_sections, syn.case_histories),
                 recommendations |->
                     Analyzer_generate_recommendations(syn.law_sections, syn.case_histories)]
           [] OTHER ->
                Tiered_generate_analysis(syn.domain_names, syn.law_sections, syn.case_histories)
    /\ UNCHANGED <<drafterVars, textVars, bert, cit, gsq, dom, srch>>

NextSynthesizer == SynthesizerCall \/ SynthesizerReturn

SpecSynthesizer == Init /\ [][NextSynthesizer]_vars

\* C15: the lists that the synthesizers of legal_backend.py and of
\* legal_brief_analyzer.py return hold 3 to 5 arguments, 3 to 5 challenges
\* and 4 to 7 recommendations, whatever the law sections and case histories.
C15_ListLengthsInBounds ==
    (syn.pc = "returned"
        /\ syn.synthesizer \in {"legal_backend", "legal_brief_analyzer"}) =>
        /\ 3 <= Len(syn.arguments) /\ Len(syn.arguments) <= 5
        /\ 3 <= Len(syn.challenges) /\ Len(syn.challenges) <= 5
        /\ 4 <= Len(syn.recommendations) /\ Len(syn.recommendations) <= 7

\* one of the two synthesizers has returned for no law section and no case
\* history
C15_Witness ==
    /\ syn.pc = "returned"
    /\ syn.synthesizer \in {"legal_backend", "legal_brief_analyzer"}
    /\ syn.law_sections = << >>
    /\ syn.case_histories = << >>
    /\ Len(syn.arguments) = 3

\* C16: the analysis of the tiered analyzer holds at least 3 arguments, at
\* least 3 challenges and at least 4 recommendations.
C16_TieredMinimums ==
    (syn.pc = "returned" /\ syn.synthesizer = "legal_brief_analyzer_with_inlegalbert") =>
        /\ Len(syn.arguments) >= 3
        /\ Len(syn.challenges) >= 3
        /\ Len(syn.recommendations) >= 4

----------------------------------------------------------------------------
(* _generate_search_queries of legal_brief_analyzer.py and of               *)
(* legal_brief_analyzer_with_inlegalbert.py.  A query is the list of the    *)
(* parts its f-string puts together.                                        *)

\* the most noun phrases, act/section pairs, citations, persons and
\* organisations extracted from a brief
MaxPhrases == 6
MaxActs == 3
MaxCitations == 2
MaxPersons == 4
MaxOrgs == 1

\* what the extraction steps find, in the order they find it; the same act
\* and section can be found twice
PhrasesPool ==
    <<"a breach", "the agreed date", "significant financial losses", "a penalty clause",
      "late delivery", "actual damages">>
ActsPool ==
    << [act |-> "Indian Contract Act", section |-> "73"],
       [act |-> "Indian Contract Act", section |-> "73"],
       [act |-> "Indian Penal Code", section |-> "420"] >>
CitationsPool ==
    << [type |-> "AIR", year |-> "2017", page |-> "567"],
       [type |-> "SCC", year |-> "2019", volume |-> "5", page |-> "123"] >>
PersonsPool == <<"Ram Kumar", "Sita Devi", "Mohan Lal", "Asha Rao">>
OrgsPool == <<"Acme Ltd">>

\* legal_brief_analyzer.py, _generate_search_queries, lines 247-284: the list
\* `queries` before the duplicates are removed
Analyzer_queries(key_phrases, acts_sections, citations, entities, legal_terms) ==
    LET phrases == Take(key_phrases, 5)
        persons == Take(entities.PERSON, 3)
        orgs == Take(entities.ORG, 3)
    IN  [i \in 1..Len(phrases) |-> <<phrases[i]>>]
        \o [i \in 1..Len(acts_sections) |->
               <<acts_sections[i].act, " section ", acts_sections[i].section>>]
        \o [i \in 1..Len(citations) |->
               CASE citations[i].type = "AIR" ->
                      <<citations[i].year, " AIR ", citations[i].page>>
                 [] citations[i].type = "SCC" ->
                      <<"(", citations[i].year, ") ", citations[i].volume, " SCC ",
                        citations[i].page>>
                 [] citations[i].type = "SCR" ->
                      <<citations[i].year, " SCR ", citations[i].page>>]
        \o (IF Truthy(legal_terms)
            THEN [i \in 1..Len(persons) |-> <<persons[i], " ", legal_terms[1]>>]
                 \o [i \in 1..Len(orgs) |-> <<orgs[i], " ", legal_terms[1]>>]
            ELSE << >>)

\* what the tiered extraction steps find; relevance is in tenths; the section
\* of an act mentioned with no section is None, written "" here: the code
\* only tests whether it is true
TieredActsPool ==
    << [act |-> "Indian Penal Code", section |-> "302", relevance |-> 9],
       [act |-> "Constitution of India", section |-> "", relevance |-> 9] >>
DomainsPool ==
    << [domain |-> "Criminal Law", relevance |-> 6, keywordMatches |-> 3],
       [domain |-> "Civil Law", relevance |-> 4, keywordMatches |-> 2],
       [domain |-> "Property Law", relevance |-> 2, keywordMatches |-> 1] >>
EntitiesPool ==
    << [type |-> "PERSON", text |-> "Ram Kumar", relevance |-> 8],
       [type |-> "ORGANIZATION", text |-> "Acme Ltd", relevance |-> 7],
       [type |-> "PERSON", text |-> "Sita Devi", relevance |-> 8],
       [type |-> "PERSON", text |-> "Mohan Lal", relevance |-> 8],
       [type |-> "PERSON", text |-> "Asha Rao", relevance |-> 8] >>
TieredPhrasesPool ==
    <<"The defendant failed to deliver", "The contract clearly specified",
      "The goods were never received", "The penalty clause applies">>

\* the elements of a list that satisfy a condition, in order
Filtered(list, keep) ==
    Concat([i \in 1..Len(list) |-> IF i \in keep THEN <<list[i]>> ELSE << >>])

\* legal_brief_analyzer_with_inlegalbert.py, _generate_search_queries, lines
\* 323-355: the list `queries` before the duplicates are removed
Tiered_queries(key_phrases, entities, acts_sections, domains) ==
    LET top_domains == Take(domains, 2)
        key_entities ==
            Take(Filtered(entities, {i \in 1..Len(entities) : entities[i].relevance > 7}), 3)
        named == Filtered(acts_sections,
                          {i \in 1..Len(acts_sections) : acts_sections[i].act # ""})
    IN  [i \in 1..Len(named) |->
            IF named[i].section # ""
            THEN <<named[i].act, " Section ", named[i].section>>
            ELSE <<named[i].act>>]
        \o Concat([d \in 1..Len(top_domains) |->
              <<<<top_domains[d].domain>>>>
              \o [e \in 1..Len(key_entities) |->
                     <<top_domains[d].domain, " ", key_entities[e].text>>]])
        \o [i \in 1..Len(Take(key_phrases, 3)) |-> <<key_phrases[i]>>]

\* list(set(queries)): the distinct queries, in an order that follows the
\* hashes of the strings and so changes from one process to the next.  The
\* orders taken are the rotations of the order of first occurrence and of
\* its reverse.
SetOrders(queries) ==
    LET first == FromKeys(queries)
        n == Len(first)
        reversed == [i \in 1..n |-> first[n + 1 - i]]
        rotated(s, k) == [i \in 1..n |-> s[((i + k - 1) % n) + 1]]
    IN  IF n = 0 THEN {<< >>}
        ELSE {rotated(first, k) : k \in 0..(n - 1)} \cup {rotated(reversed, k) : k \in 0..(n - 1)}

\* _generate_search_queries of one of the two analyzers is called; what the
\* extraction steps found is the first so many entries of the pools
QueriesCall ==
    /\ gsq.pc = "idle"
    /\ \/ \E phrases \in 0..MaxPhrases, acts \in 0..MaxActs, citations \in 0..MaxCitations,
             persons \in 0..MaxPersons, orgs \in 0..MaxOrgs,
             legal_terms \in {<< >>, <<"contract", "breach">>} :
             gsq' = [pc |-> "called", analyzer |-> "legal_brief_analyzer",
                     acts_sections |-> Take(ActsPool, acts),
                     citations |-> Take(CitationsPool, citations),
                     queries |-> Analyzer_queries(Take(PhrasesPool, phrases),
                                     Take(ActsPool, acts), Take(CitationsPool, citations),
                                     [PERSON |-> Take(PersonsPool, persons),
                                      ORG |-> Take(OrgsPool, orgs),
                                      DATE |-> << >>, LOCATION |-> << >>],
                                     legal_terms)]
       \/ \E phrases \in 0..Len(TieredPhrasesPool), entities \in 0..Len(EntitiesPool),
             acts \in 0..Len(TieredActsPool), domains \in 0..Len(DomainsPool) :
             gsq' = [pc |-> "called", analyzer |-> "legal_brief_analyzer_with_inlegalbert",
                     acts_sections |-> Take(TieredActsPool, acts),
                     citations |-> << >>,
                     queries |-> Tiered_queries(Take(TieredPhrasesPool, phrases),
                                     Take(EntitiesPool, entities), Take(TieredActsPool, acts),
                                     Take(DomainsPool, domains))]
    /\ UNCHANGED <<drafterVars, textVars, bert, cit, syn, dom, srch>>

\* `unique_queries = list(set(queries))`, `return unique_queries[:10]` in
\* legal_brief_analyzer.py (lines 287-288); `return list(set(queries))` in
\* the tiered analyzer (line 357)
QueriesReturn ==
    /\ gsq.pc = "called"
    /\ \E unique_queries \in SetOrders(gsq.queries) :
          gsq' = [gsq EXCEPT !.pc = "returned"] @@
                 [result |-> IF gsq.analyzer = "legal_brief_analyzer"
                             THEN Take(unique_queries, 10)
                             ELSE unique_queries]
    /\ UNCHANGED <<drafterVars, textVars, bert, cit, syn, dom, srch>>

NextQueries == QueriesCall \/ QueriesReturn

SpecQueries == Init /\ [][NextQueries]_vars

\* C17: each _generate_search_queries returns at most 10 queries, no two of
\* them equal.
C17_DistinctAtMostTen ==
    gsq.pc = "returned" =>
        /\ Len(gsq.result) <= 10
        /\ \A i, j \in 1..Len(gsq.result) : gsq.result[i] = gsq.result[j] => i = j

\* the act/section queries and the citation queries of the call to
\* _generate_search_queries of legal_brief_analyzer.py
ActAndCitationQueries ==
    Range(Analyzer_queries(<< >>, gsq.acts_sections, gsq.citations,
                           [PERSON |-> << >>, ORG |-> << >>], << >>))

\* C18: when the distinct act/section and citation queries are at most 10,
\* _generate_search_queries of legal_brief_analyzer.py returns every one of
\* them, however many phrase and entity queries there are.
C18_ActsAndCitationsNotStarved ==
    (gsq.pc = "returned" /\ gsq.analyzer = "legal_brief_analyzer"
        /\ Cardinality(ActAndCitationQueries) <= 10) =>
        ActAndCitationQueries \subseteq Range(gsq.result)

----------------------------------------------------------------------------
(* legal_backend.py: LegalBriefAnalyzer._identify_legal_domains.  The text  *)
(* is a list of lower-case words joined by single spaces.                   *)

\* the most words of a text and the most acts extracted from it
MaxTextWords == 3
MaxDomainActs == 2

\* the keys of domain_keywords, in the order of the dict (lines 146-155)
DomainOrder ==
    <<"criminal", "civil", "constitutional", "corporate", "tax", "family",
      "intellectual_property", "labor">>

\* domain_keywords, lines 146-155
domain_keywords ==
    [criminal |-> <<"murder", "theft", "robbery", "assault", "criminal", "ipc", "bail", "arrest">>,
     civil |-> <<"contract", "property", "damages", "breach", "agreement", "specific",
                 "performance">>,
     constitutional |-> <<"fundamental", "rights", "constitution", "article", "writ", "petition">>,
     corporate |-> <<"company", "director", "shareholder", "board", "corporate", "sebi">>,
     tax |-> <<"income", "tax", "gst", "evasion", "assessment", "return">>,
     family |-> <<"divorce", "custody", "maintenance", "marriage", "adoption">>,
     intellectual_property |-> <<"patent", "copyright", "trademark", "infringement", "design">>,
     labor |-> <<"employee", "employer", "dismissal", "compensation", "industrial", "dispute">>]

\* the words of the texts
DomainWords == {"murder", "contract", "copyrights", "taxation", "written", "said"}

\* the keywords that are substrings of a word, each of them once
KeywordsIn(word) ==
    CASE word = "murder" -> {"murder"}
      [] word = "contract" -> {"contract"}
      [] word = "copyrights" -> {"rights", "copyright"}
      [] word = "taxation" -> {"tax"}
      [] word = "written" -> {"writ"}
      [] OTHER -> {}

\* `text_lower.count(kw)`; no keyword holds a space, so an occurrence lies
\* within one word
Count(words, kw) == Cardinality({i \in 1..Len(words) : kw \in KeywordsIn(words[i])})

\* the acts of the texts
DomainActs == {"Indian Contract Act, 1872", "Companies Act, 2013", "Limitation Act, 1963"}

\* the if/elif chain over act_lower, lines 168-184: the domain of the first
\* branch whose substring the act holds, "" if none does
ActDomain(act) ==
    CASE act = "Indian Contract Act, 1872" -> "civil"
      [] act = "Companies Act, 2013" -> "corporate"
      [] OTHER -> ""

\* domain_scores after the two loops, lines 158-184
DomainScores(words, acts) ==
    [domain \in Range(DomainOrder) |->
        LET kw_list == domain_keywords[domain]
            counts == [k \in 1..Len(kw_list) |-> Count(words, kw_list[k])]
            RECURSIVE sum(_)
            sum(k) == IF k = 0 THEN 0 ELSE counts[k] + sum(k - 1)
        IN  sum(Len(kw_list))
            + 3 * Cardinality({i \in 1..Len(acts) : ActDomain(acts[i]) = domain})]

\* `if score > 0` of the list comprehension, with the scores of 0 let through
ScoredOrZero(score) == score >= 0

\* `if score > 0` of the list comprehension, line 189
Scored(score) == score > 0

\* `sorted(domain_scores.items(), key=lambda x: x[1], reverse=True)`: a
\* stable sort of the domains, in dict order, by falling score
RECURSIVE SortedByScore(_, _)
SortedByScore(domains, scores) ==
    IF domains = << >> THEN << >>
    ELSE LET before == SortedByScore(SubSeq(domains, 1, Len(domains) - 1), scores)
             last == domains[Len(domains)]
             n == Cardinality({j \in 1..Len(before) : scores[before[j]] >= scores[last]})
         IN  SubSeq(before, 1, n) \o <<last>> \o SubSeq(before, n + 1, Len(before))

\* the list comprehension, the sentinel and the cut, lines 187-195
RelevantDomains(domain_scores) ==
    LET sorted == SortedByScore(DomainOrder, domain_scores)
        relevant_domains ==
            Filtered(sorted, {i \in 1..Len(sorted) : Scored(domain_scores[sorted[i]])})
    IN  IF ~Truthy(relevant_domains) THEN <<"general">>
        ELSE Take(relevant_domains, 3)

\* _identify_legal_domains is called
DomainsCall ==
    /\ dom.pc = "idle"
    /\ \E words \in ListsOf(DomainWords, MaxTextWords), acts \in ListsOf(DomainActs, MaxDomainActs) :
          dom' = [pc |-> "called", words |-> words, acts |-> acts]
    /\ UNCHANGED <<drafterVars, textVars, bert, cit, syn, gsq, srch>>

\* the loops over the keywords and over the acts fill domain_scores
DomainsScore ==
    /\ dom.pc = "called"
    /\ dom' = [dom EXCEPT !.pc = "scored"] @@
              [domain_scores |-> DomainScores(dom.words, dom.acts)]
    /\ UNCHANGED <<drafterVars, textVars, bert, cit, syn, gsq, srch>>

\* it returns its list
DomainsReturn ==
    /\ dom.pc = "scored"
    /\ dom' = [dom EXCEPT !.pc = "returned"] @@
              [result |-> RelevantDomains(dom.domain_scores)]
    /\ UNCHANGED <<drafterVars, textVars, bert, cit, syn, gsq, srch>>

NextDomains == DomainsCall \/ DomainsScore \/ DomainsReturn

SpecDomains == Init /\ [][NextDomains]_vars

\* C19: _identify_legal_domains returns either exactly ["general"] or 1 to 3
\* distinct real domains, each with a positive score, in non-increasing
\* score order; "general" never stands with a real domain.
C19_GeneralOrTopThree ==
    dom.pc = "returned" =>
        LET scores == dom.domain_scores
        IN  \/ dom.result = <<"general">>
            \/ /\ 1 <= Len(dom.result) /\ Len(dom.result) <= 3
               /\ \A i \in 1..Len(dom.result) :
                     /\ dom.result[i] \in Range(DomainOrder)
                     /\ scores[dom.result[i]] > 0
               /\ \A i, j \in 1..Len(dom.result) :
                     /\ dom.result[i] = dom.result[j] => i = j
                     /\ i < j => scores[dom.result[i]] >= scores[dom.result[j]]

\* the call has returned three domains for a text in which more than three
\* domains score
C19_Witness ==
    /\ dom.pc = "returned"
    /\ Len(dom.result) = 3
    /\ Cardinality({d \in Range(DomainOrder) : dom.domain_scores[d] > 0}) > 3

----------------------------------------------------------------------------
(* legal_brief_analyzer.py: _search_law_sections and _search_case_histories *)
(* over the Indian Kanoon client, whose calls return or raise.              *)

\* the most exact items (acts_sections or citations) and the most documents
\* a search returns
MaxItems == 2
MaxDocs == 2

\* the queries handed to the search: the first is the query of an act and
\* section
QueryPool == << <<"Indian Contract Act", " section ", "73">>, <<"a breach">> >>

\* a document of results['docs'] with what get_document does for it: tid is
\* None when the document has no 'tid'; fetch is "doc" when doc_details
\* holds 'doc', "empty" when it does not, "raises" when the call raises
DocOutcomes ==
    {[tid |-> 101, fetch |-> "doc"], [tid |-> 102, fetch |-> "doc"],
     [tid |-> 101, fetch |-> "raises"], [tid |-> 102, fetch |-> "empty"],
     [tid |-> None, fetch |-> "empty"]}

\* what api_client.search does: it raises, or it returns its documents
SearchOutcomes ==
    {[raises |-> TRUE, docs |-> << >>]} \cup
    {[raises |-> FALSE, docs |-> docs] : docs \in ListsOf(DocOutcomes, MaxDocs)}

\* the query of an exact item: `f"{item['act']} section {item['section']}"`,
\* or citation_str
ExactQuery(kind, item) ==
    IF kind = "law_sections" THEN <<item.act, " section ", item.section>>
    ELSE Analyzer_queries(<< >>, << >>, <<item>>, [PERSON |-> << >>, ORG |-> << >>], << >>)[1]

\* the dict appended for a document: relevance 9 for the lookup of an exact
\* item, 7 for the search of a query
Entry(kind, item, tid, relevance) ==
    LET of(what) == <<what, " of document ", ToString(tid)>>
    IN  IF kind = "law_sections"
        THEN [title |-> IF relevance = 9 THEN <<item.act>> ELSE of("act"),
              sectionNumber |-> IF relevance = 9 THEN <<item.section>> ELSE of("section"),
              content |-> of("content"), relevance |-> relevance,
              source |-> "Indian Kanoon", docId |-> tid]
        ELSE [citation |-> IF relevance = 9 THEN ExactQuery(kind, item) ELSE of("citation"),
              parties |-> of("title"), holdings |-> of("holdings"),
              relevance |-> relevance, date |-> of("date"),
              source |-> "Indian Kanoon", docId |-> tid]

\* the loop over results['docs'][:limit] inside the try: the entries it
\* appends to list; an exception of get_document ends it; the search of a
\* query (relevance 7) passes over a document already in the list
RECURSIVE AppendDocs(_, _, _, _, _, _)
AppendDocs(list, docs, k, kind, item, relevance) ==
    IF k > Len(docs) THEN list
    ELSE LET doc == docs[k]
             included == relevance = 7 /\ \E i \in 1..Len(list) : list[i].docId = doc.tid
         IN  IF included \/ doc.tid = None
             THEN AppendDocs(list, docs, k + 1, kind, item, relevance)
             ELSE IF doc.fetch = "raises" THEN list
             ELSE AppendDocs(IF doc.fetch = "doc"
                             THEN Append(list, Entry(kind, item, doc.tid, relevance))
                             ELSE list,
                             docs, k + 1, kind, item, relevance)

\* whether that loop ends in the `except Exception` branch, which logs the
\* error and goes on with the next item or query
RECURSIVE Raised(_, _, _, _)
Raised(list, docs, k, relevance) ==
    IF k > Len(docs) THEN FALSE
    ELSE LET doc == docs[k]
             included == relevance = 7 /\ \E i \in 1..Len(list) : list[i].docId = doc.tid
         IN  IF included \/ doc.tid = None THEN Raised(list, docs, k + 1, relevance)
             ELSE IF doc.fetch = "raises" THEN TRUE
             ELSE Raised(IF doc.fetch = "doc" THEN Append(list, [docId |-> doc.tid]) ELSE list,
                         docs, k + 1, relevance)

\* _search_law_sections(queries, acts_sections) or
\* _search_case_histories(queries, citations) is called
KanoonCall ==
    /\ srch.pc = "idle"
    /\ \E kind \in {"law_sections", "case_histories"}, items \in 0..MaxItems,
          queries \in 0..Len(QueryPool) :
          srch' = [pc |-> IF items = 0 THEN "concept" ELSE "exact", kind |-> kind,
                   items |-> IF kind = "law_sections" THEN Take(ActsPool, items)
                             ELSE Take(CitationsPool, items),
                   queries |-> Take(QueryPool, queries),
                   i |-> 1, list |-> << >>, exact |-> << >>, errors |-> 0]
    /\ UNCHANGED <<drafterVars, textVars, bert, cit, syn, gsq, dom>>

\* one round of the first loop: the lookup of an act and section (lines
\* 330-350, at most 3 documents) or of a citation (lines 400-431, at most 2)
ExactLookup ==
    /\ srch.pc = "exact"
    /\ \E outcome \in SearchOutcomes :
          LET limit == IF srch.kind = "law_sections" THEN 3 ELSE 2
              list == IF outcome.raises THEN srch.list
                      ELSE AppendDocs(srch.list, Take(outcome.docs, limit), 1, srch.kind,
                                      srch.items[srch.i], 9)
              raised == \/ outcome.raises
                        \/ Raised(srch.list, Take(outcome.docs, limit), 1, 9)
          IN  srch' = [srch EXCEPT !.list = list, !.exact = list,
                                   !.errors = IF raised THEN @ + 1 ELSE @,
                                   !.i = IF srch.i = Len(srch.items) THEN 1 ELSE @ + 1,
                                   !.pc = IF srch.i = Len(srch.items) THEN "concept" ELSE @]
    /\ UNCHANGED <<drafterVars, textVars, bert, cit, syn, gsq, dom>>

\* one round of the second loop: the search of a query (lines 353-378 and
\* 434-460, at most 2 documents); _search_law_sections passes over a query
\* that is the query of an act and section
ConceptLookup ==
    /\ srch.pc = "concept"
    /\ srch.i <= Len(srch.queries)
    /\ LET query == srch.queries[srch.i]
           skipped == /\ srch.kind = "law_sections"
                      /\ \E n \in 1..Len(srch.items) :
                            query = ExactQuery(srch.kind, srch.items[n])
       IN  \E outcome \in SearchOutcomes :
              srch' = [srch EXCEPT
                         !.list = IF skipped \/ outcome.raises THEN @
                                  ELSE AppendDocs(@, Take(outcome.docs, 2), 1, srch.kind,
                                                  query, 7),
                         !.errors = IF /\ ~skipped
                                       /\ \/ outcome.raises
                                          \/ Raised(srch.list, Take(outcome.docs, 2), 1, 7)
                                    THEN @ + 1 ELSE @,
                         !.i = @ + 1]
    /\ UNCHANGED <<drafterVars, textVars, bert, cit, syn, gsq, dom>>

\* the list sorted with `reverse=False`: the least relevant first
LeastRelevantFirst(list) ==
    LET sorted == SortedByRelevance(list)
    IN  [i \in 1..Len(list) |-> sorted[Len(list) + 1 - i]]

\* `law_sections.sort(key=lambda x: x['relevance'], reverse=True)` (line
\* 381) and `case_histories.sort(...)` (line 462): a stable sort
MostRelevantFirst(list) == SortedByRelevance(list)

\* the sort and the return (lines 380-383, 459-464)
SortReturn ==
    /\ srch.pc = "concept"
    /\ srch.i > Len(srch.queries)
    /\ srch' = [srch EXCEPT !.pc = "returned"] @@ [result |-> MostRelevantFirst(srch.list)]
    /\ UNCHANGED <<drafterVars, textVars, bert, cit, syn, gsq, dom>>

NextKanoon == KanoonCall \/ ExactLookup \/ ConceptLookup \/ SortReturn

SpecKanoon == Init /\ [][NextKanoon]_vars

\* C20: in a returned list the entries of the exact lookups, all of
\* relevance 9, come first and in the order they were found, and every entry
\* after them is an entry of a query search, of relevance 7.
C20_ExactBeforeConcept ==
    srch.pc = "returned" =>
        /\ Take(srch.result, Len(srch.exact)) = srch.exact
        /\ \A i \in 1..Len(srch.result) :
              srch.result[i].relevance = IF i <= Len(srch.exact) THEN 9 ELSE 7
        /\ \A i, j \in 1..Len(srch.result) :
              (srch.result[i].relevance = 7 /\ srch.result[j].relevance = 9) => j < i

\* a search has returned entries of both kinds after one of its calls raised
C20_Witness ==
    /\ srch.pc = "returned"
    /\ \E i, j \in 1..Len(srch.result) :
          srch.result[i].relevance = 9 /\ srch.result[j].relevance = 7
    /\ srch.errors > 0

----------------------------------------------------------------------------
(* CaseFileDraftingAgent(): __init__ loads the six templates with          *)
(* _load_template, which opens templates/<name>.txt.                       *)

\* the keys of self.templates in the order of the dict display (lines 29-36)
TemplateOrder ==
    <<"petition", "reply", "rejoinder", "affidavit", "legal_notice", "written_statement">>

\* what open(f"templates/{template_name}.txt", "r") and f.read() meet: no
\* such file, a file that is read, a file that may not be opened or is a
\* directory, a file whose bytes are not text in the default encoding
FileStates == {"missing", "readable", "unreadable", "undecodable"}

\* the text of a template file that is read
FileText(template_name) == <<"the text of templates/", template_name, ".txt">>

\* the try statement of _load_template (lines 76-208): `except
\* FileNotFoundError` is its only handler, so any other exception of open or
\* read leaves the method
LoadTemplate(state, template_name) ==
    CASE state = "readable" -> [raised |-> "none", template |-> FileText(template_name)]
      [] state = "missing" -> [raised |-> "none", template |-> _load_template(template_name)]
      [] state = "unreadable" -> [raised |-> "PermissionError", template |-> << >>]
      [] state = "undecodable" -> [raised |-> "UnicodeDecodeError", template |-> << >>]

\* CaseFileDraftingAgent() is called with the template files in some state
AgentConstruct ==
    /\ ctor.pc = "idle"
    /\ \E files \in [TemplateTypes -> FileStates] :
          ctor' = [pc |-> "loading", files |-> files, templates |-> << >>, raised |-> "none"]
    /\ UNCHANGED <<drafterVars, analyzerVars, norm, refs>>

\* the next entry of the dict display of self.templates is evaluated
AgentLoad ==
    /\ ctor.pc = "loading"
    /\ Len(ctor.templates) < Len(TemplateOrder)
    /\ LET template_name == TemplateOrder[Len(ctor.templates) + 1]
           loaded == LoadTemplate(ctor.files[template_name], template_name)
       IN  ctor' = IF loaded.raised = "none"
                   THEN [ctor EXCEPT !.templates = Append(@, loaded.template)]
                   ELSE [ctor EXCEPT !.pc = "raised", !.raised = loaded.raised]
    /\ UNCHANGED <<drafterVars, analyzerVars, norm, refs>>

\* self.document_structures is assigned and __init__ returns
AgentConstructed ==
    /\ ctor.pc = "loading"
    /\ Len(ctor.templates) = Len(TemplateOrder)
    /\ ctor' = [ctor EXCEPT !.pc = "constructed"]
    /\ UNCHANGED <<drafterVars, analyzerVars, norm, refs>>

NextConstruct == AgentConstruct \/ AgentLoad \/ AgentConstructed

SpecConstruct == Init /\ [][NextConstruct]_vars

\* C21: no exception leaves the constructor, and a template whose file could
\* not be loaded (missing, unreadable or undecodable) is the built-in default.
C21_LoadFailureNeverFatal ==
    /\ ctor.pc # "raised"
    /\ ctor.pc \in {"loading", "constructed"} =>
          \A i \in 1..Len(ctor.templates) :
             ctor.files[TemplateOrder[i]] # "readable" =>
                ctor.templates[i] = _load_template(TemplateOrder[i])

----------------------------------------------------------------------------
(* legal_backend.py: LegalBriefAnalyzer._preprocess_text (lines 81-89).    *)
(* A text is a sequence of characters; "a" stands for any character that   *)
(* is neither whitespace nor a quote.                                      *)

\* the longest text
MaxTextLen == 3

\* the characters of a text: whitespace, a letter, the double quote and the
\* apostrophe
TextChars == {" ", "\n", "\t", "a", "\"", "'"}

\* the characters that \s matches and str.strip() removes
WhitespaceChars == {" ", "\n", "\t"}

\* the tokens the Python tokenizer reads on lines 84, 86 and 88, each up to
\* the end of the line or to the token it rejects: on line 88 the text
\* r'[''']' is the string r'[', the empty string '' and a closing bracket
SourceLines ==
    << <<"text", "=", "re", ".", "sub", "(", "r'\\s+'", ",", "' '", ",", "text", ")",
         ".", "strip", "(", ")">>,
       <<"text", "=", "re", ".", "sub", "(", "r'[\"\"\"]'", ",", "'\"'", ",", "text", ")">>,
       <<"text", "=", "re", ".", "sub", "(", "r'['", "''", "]">> >>

\* the opening bracket a closing bracket pairs with
Opening == [x \in {")", "]", "}"} |-> CASE x = ")" -> "(" [] x = "]" -> "[" [] x = "}" -> "{"]

\* whether the tokenizer accepts the brackets of a line, given the brackets
\* that are open: a closing bracket must pair with the last one opened
RECURSIVE BracketsMatch(_, _, _)
BracketsMatch(tokens, i, open) ==
    IF i > Len(tokens) THEN open = << >>
    ELSE IF tokens[i] \in {"(", "[", "{"}
         THEN BracketsMatch(tokens, i + 1, Append(open, tokens[i]))
    ELSE IF tokens[i] \in DOMAIN Opening
         THEN /\ open # << >>
              /\ open[Len(open)] = Opening[tokens[i]]
              /\ BracketsMatch(tokens, i + 1, SubSeq(open, 1, Len(open) - 1))
    ELSE BracketsMatch(tokens, i + 1, open)

\* whether the module compiles, so that it can be imported and the method
\* called
Compiles == \A n \in 1..Len(SourceLines) : BracketsMatch(SourceLines[n], 1, << >>)

\* re.sub(r'\s+', ' ', text): every maximal run of whitespace becomes a space
SubWhitespace(text) ==
    LET ends == [i \in {j \in 1..Len(text) : /\ text[j] \in WhitespaceChars
                                              /\ (j = 1 \/ text[j - 1] \notin WhitespaceChars)}
                   |-> RunEnd(text, i, WhitespaceChars)]
    IN  Splice(text, ends, <<" ">>, 1)

\* str.strip() of a text of characters
StripChars(text) ==
    SubSeq(text, RunEnd(text, 1, WhitespaceChars) + 1,
           RunStart(text, Len(text), WhitespaceChars) - 1)

\* re.sub(r'["""]', '"', text): the class holds the double quote only
SubQuotes(text) == [i \in 1..Len(text) |-> IF text[i] \in {"\""} THEN "\"" ELSE text[i]]

\* lines 84 and 86, the statements of the method that compile
_preprocess_text(text) == SubQuotes(StripChars(SubWhitespace(text)))

\* _preprocess_text(text) is to be called on a text
PreprocessCall ==
    /\ norm.pc = "idle"
    /\ \E text \in ListsOf(TextChars, MaxTextLen) : norm' = [pc |-> "called", text |-> text]
    /\ UNCHANGED <<drafterVars, analyzerVars, ctor, refs>>

\* legal_backend is imported and the method runs, on its result too; the
\* import raises SyntaxError if the module does not compile
PreprocessRun ==
    /\ norm.pc = "called"
    /\ norm' = IF Compiles
               THEN [norm EXCEPT !.pc = "returned"] @@
                    [once |-> _preprocess_text(norm.text),
                     twice |-> _preprocess_text(_preprocess_text(norm.text))]
               ELSE [norm EXCEPT !.pc = "raised"] @@ [raised |-> "SyntaxError"]
    /\ UNCHANGED <<drafterVars, analyzerVars, ctor, refs>>

NextPreprocess == PreprocessCall \/ PreprocessRun

SpecPreprocess == Init /\ [][NextPreprocess]_vars

\* C22: _preprocess_text has no failure mode and is idempotent: the call
\* returns, and applying it to its result gives the result again.
C22_NormalizeIdempotent ==
    /\ norm.pc # "raised"
    /\ norm.pc = "returned" => norm.twice = norm.once

----------------------------------------------------------------------------
(* Further claims about draft_case_file *)

\* a text occurs in another
Occurs(part, whole) ==
    \E i \in 0..(Len(whole) - Len(part)) : SubSeq(whole, i + 1, i + Len(part)) = part

\* C24: when draft_case_file returns, the template of the document type
\* holds the placeholder of every section of the type's schema, and the text
\* generated for each section, cleaned up as the whole document is, occurs
\* in the returned content.
C24_EverySectionPlaced ==
    pc = "returned" =>
        \A section \in Range(StructureOf(args.document_type)) :
            /\ Occurs(Placeholder(section), templates[args.document_type])
            /\ Occurs(CleanUp(document_sections[section]), result.content)

----------------------------------------------------------------------------
(* Further claims about _search_law_sections and _search_case_histories *)

\* C25: in a returned list no two law sections have the same title and
\* sectionNumber, and no two case histories have the same citation.
C25_NoSharedKey ==
    srch.pc = "returned" =>
        \A i, j \in 1..Len(srch.result) :
            i # j =>
                IF srch.kind = "law_sections"
                THEN <<srch.result[i].title, srch.result[i].sectionNumber>> #
                     <<srch.result[j].title, srch.result[j].sectionNumber>>
                ELSE srch.result[i].citation # srch.result[j].citation

----------------------------------------------------------------------------
(* Further claims about the party extractors *)

\* whether a role-keyword pattern of the drafter matched the brief
KeywordFound(matches) == \E i \in 1..Len(matches) : matches[i] # << >>

\* C26: the drafter's extractor returns the party of the first role-keyword
\* pattern that matched, on each side where one matched; the versus match is
\* used only on a side where none did.
C26_KeywordPartyKept ==
    api.pc \in {"extracted", "generated", "returned"} =>
        /\ KeywordFound(api.brief.petitioner) =>
              api.parties.petitioner = FirstMatch(api.brief.petitioner, "The Petitioner")
        /\ KeywordFound(api.brief.respondent) =>
              api.parties.respondent = FirstMatch(api.brief.respondent, "The Respondent")

\* the agent's extractor: the versus loop adds a party to petitioners or to
\* respondents only when the role-keyword patterns gave that side none, and
\* then only the party of one versus match
AgentVersusOnlyEmptySide ==
    pc \in {"extracted", "generated", "filled", "returned"} =>
        LET brief == args.brief
            parties == _extract_potential_parties(brief)
            pet == Concat([i \in 1..Len(brief.pet) |-> KeptMatches(brief.pet[i])])
            resp == Concat([i \in 1..Len(brief.resp) |-> KeptMatches(brief.resp[i])])
        IN  /\ parties.plaintiffs = FromKeys(pet)
            /\ parties.defendants = FromKeys(resp)
            /\ pet # << >> => parties.petitioners = << >>
            /\ resp # << >> => parties.respondents = << >>
            /\ Len(parties.petitioners) <= 1
            /\ Len(parties.respondents) <= 1

----------------------------------------------------------------------------
(* Further claims about _extract_entities *)

\* a list holds no element twice
NoRepeats(list) == \A i, j \in 1..Len(list) : list[i] = list[j] => i = j

\* the texts a brief mentions for an entity sequence, in order: those of the
\* spaCy entities, and for monetary_values the amounts of the money pattern
\* after them
Mentions(brief, key) ==
    CASE key = "persons" -> EntityTexts(brief.ents, {"PERSON"})
      [] key = "organizations" -> EntityTexts(brief.ents, {"ORG"})
      [] key = "dates" -> EntityTexts(brief.ents, {"DATE"})
      [] key = "locations" -> EntityTexts(brief.ents, {"GPE", "LOC"})
      [] key = "monetary_values" ->
            EntityTexts(brief.ents, {"MONEY"}) \o
            [i \in 1..Len(brief.money) |->
                Rs(IF brief.money[i][1] # "" THEN brief.money[i][1] ELSE brief.money[i][2])]

\* C27: every entity sequence that _extract_entities returns holds no text
\* twice and holds the texts the brief mentions in the order of their first
\* occurrence.
C27_EntitiesDistinctInOrder ==
    pc \in {"extracted", "generated", "filled", "returned"} =>
        \A key \in {"persons", "organizations", "dates", "locations", "monetary_values"} :
            /\ NoRepeats(extracted[key])
            /\ extracted[key] = FromKeys(Mentions(args.brief, key))

----------------------------------------------------------------------------
(* _extract_acts_sections of legal_brief_analyzer.py (lines 130-185) and of *)
(* legal_brief_analyzer_with_inlegalbert.py (lines 172-217).  A brief is a  *)
(* list of words, written with a space between two words and none before a *)
(* comma; the name of an act is one word.                                   *)

\* the longest brief, in words
MaxRefWords == 5

\* the section numbers of a brief
SectionNumbers == {"73"}

\* the words of a brief
RefWords == {"Indian Contract Act", "IPC", ",", "Section", "of", "the"} \cup SectionNumbers

\* common_acts (lines 141-153)
common_acts ==
    <<"Indian Penal Code", "IPC", "Code of Criminal Procedure", "CrPC",
      "Code of Civil Procedure", "CPC", "Indian Contract Act", "Indian Evidence Act",
      "Constitution of India", "Income Tax Act", "Companies Act", "Specific Relief Act",
      "Arbitration and Conciliation Act", "Consumer Protection Act">>

\* acts (lines 188-197 of the tiered analyzer): the name of each act and the
\* alternatives its pattern begins with
tiered_acts ==
    << [name |-> "Indian Penal Code", begins |-> {"Indian Penal Code", "IPC"}],
       [name |-> "Code of Criminal Procedure", begins |-> {"Code of Criminal Procedure", "CrPC"}],
       [name |-> "Code of Civil Procedure", begins |-> {"Code of Civil Procedure", "CPC"}],
       [name |-> "Constitution of India", begins |-> {"Constitution of India", "Constitution"}],
       [name |-> "Indian Contract Act", begins |-> {"Indian Contract Act", "Contract Act"}],
       [name |-> "Indian Evidence Act", begins |-> {"Indian Evidence Act", "Evidence Act"}],
       [name |-> "Income Tax Act", begins |-> {"Income Tax Act"}],
       [name |-> "Companies Act", begins |-> {"Companies Act"}] >>

\* the word at a position, "" past the end
WordAt(words, i) == IF i \in 1..Len(words) THEN words[i] ELSE ""

\* group 2 of a match of act_section_pattern (line 158) for an act at
\* position i, "" if there is none: the act, an optional comma, "Section",
\* the number
ActSectionAt(words, i, act) ==
    LET j == IF WordAt(words, i + 1) = "," THEN i + 2 ELSE i + 1
    IN  IF /\ WordAt(words, i) = act
           /\ WordAt(words, j) = "Section"
           /\ WordAt(words, j + 1) \in SectionNumbers
        THEN WordAt(words, j + 1) ELSE ""

\* group 1 of a match of section_act_pattern (line 172) for an act at
\* position i, "" if there is none: "Section", the number, "of", "the", the
\* act
SectionActAt(words, i, act) ==
    IF /\ WordAt(words, i) = "Section"
       /\ WordAt(words, i + 1) \in SectionNumbers
       /\ WordAt(words, i + 2) = "of"
       /\ WordAt(words, i + 3) = "the"
       /\ WordAt(words, i + 4) = act
    THEN WordAt(words, i + 1) ELSE ""

\* the dicts one loop over common_acts appends: for each act in turn, one
\* for each match in the brief, whose act is the group that matched the
\* act's name, as the brief has it
ActLoop(words, form) ==
    LET positions == [i \in 1..Len(words) |-> i]
        section(i, act) == IF form = 1 THEN ActSectionAt(words, i, act)
                           ELSE SectionActAt(words, i, act)
        matches(act) == SelectSeq(positions, LAMBDA i : section(i, act) # "")
    IN  Concat([a \in 1..Len(common_acts) |->
                  [m \in 1..Len(matches(common_acts[a])) |->
                      [act |-> WordAt(words, matches(common_acts[a])[m] +
                                             IF form = 1 THEN 0 ELSE 4),
                       section |-> section(matches(common_acts[a])[m], common_acts[a])]]])

\* LegalBriefAnalyzer._extract_acts_sections of legal_brief_analyzer.py
_extract_acts_sections(words) == ActLoop(words, 1) \o ActLoop(words, 2)

\* the group of the tiered pattern at position i: the number when the act
\* is followed by white space, "Section", white space and a number, else the
\* empty group, for which the code leaves section None (written "")
TieredSectionAt(words, i) ==
    IF WordAt(words, i + 1) = "Section" /\ WordAt(words, i + 2) \in SectionNumbers
    THEN WordAt(words, i + 2) ELSE ""

\* LegalBriefAnalyzer._extract_acts_sections of the tiered analyzer
_extract_acts_sections_inlegalbert(words) ==
    LET positions == [i \in 1..Len(words) |-> i]
        matches(a) == SelectSeq(positions, LAMBDA i : words[i] \in tiered_acts[a].begins)
    IN  Concat([a \in 1..Len(tiered_acts) |->
                  [m \in 1..Len(matches(a)) |->
                      [act |-> tiered_acts[a].name,
                       section |-> TieredSectionAt(words, matches(a)[m]),
                       relevance |-> "0.9"]]])

\* _extract_acts_sections of one analyzer is called on a brief
RefsCall ==
    /\ refs.pc = "idle"
    /\ \E analyzer \in {"legal_brief_analyzer", "legal_brief_analyzer_with_inlegalbert"},
          words \in ListsOf(RefWords, MaxRefWords) :
          refs' = [pc |-> "called", analyzer |-> analyzer, words |-> words]
    /\ UNCHANGED <<drafterVars, analyzerVars, ctor, norm>>

\* `return acts_sections`
RefsReturn ==
    /\ refs.pc = "called"
    /\ refs' = [refs EXCEPT !.pc = "returned"] @@
               [acts_sections |->
                  IF refs.analyzer = "legal_brief_analyzer"
                  THEN _extract_acts_sections(refs.words)
                  ELSE _extract_acts_sections_inlegalbert(refs.words)]
    /\ UNCHANGED <<drafterVars, analyzerVars, ctor, norm>>

NextRefs == RefsCall \/ RefsReturn

SpecRefs == Init /\ [][NextRefs]_vars

\* the acts an analyzer knows by their name
CatalogOf(analyzer) ==
    IF analyzer = "legal_brief_analyzer" THEN Range(common_acts)
    ELSE {tiered_acts[a].name : a \in 1..Len(tiered_acts)}

\* C28: for a brief that is "<Act>, Section N" or "Section N of the <Act>",
\* with an act of the analyzer's catalog, the extractor returns one
\* reference, whose act is the act's name and whose section is N.
C28_BothFormsSameReference ==
    refs.pc = "returned" =>
        \A act \in CatalogOf(refs.analyzer), N \in SectionNumbers :
            refs.words \in {<<act, ",", "Section", N>>, <<"Section", N, "of", "the", act>>} =>
                /\ Len(refs.acts_sections) = 1
                /\ refs.acts_sections[1].act = act
                /\ refs.acts_sections[1].section = N


----------------------------------------------------------------------------
(* The citation extractors on the brief "AIR 2017 SC 567".                 *)

\* the brief whose only citation is "AIR 2017 SC 567"
AirBrief == <<"AIR", "2017", "SC", "567">>

\* C29: on the brief "AIR 2017 SC 567" the citation extractor of either
\* analyzer returns exactly one citation, of type AIR with year 2017 and
\* page 567.
C29_AirCitationExtracted ==
    (cit.pc \in {"returned", "raised"} /\ cit.words = AirBrief)
        => /\ cit.pc = "returned"
           /\ Len(cit.citations) = 1
           /\ "type" \in DOMAIN cit.citations[1]
           /\ cit.citations[1].type = "AIR"
           /\ cit.citations[1].year = "2017"
           /\ cit.citations[1].page = "567"


----------------------------------------------------------------------------
(* The numbering of the prayer section *)

\* the decimal numbers an item can carry
NumberTokens == {ToString(n) : n \in 1..9}

\* the positions of the text where a numbered item starts: "1. " and "2. " of
\* the fixed items, and a number followed by ". " or by the closing sentence
ItemStarts(text) ==
    {i \in 1..Len(text) :
        \/ text[i] \in {"1. ", "2. "}
        \/ /\ i < Len(text)
           /\ text[i] \in NumberTokens
           /\ text[i + 1] \in {". ", ". Pass any other order or direction as this Hon'ble Court may deem fit and proper in the interest of justice."}}

\* the numbers of the items of the text, from the first item to the last
RECURSIVE NumbersFrom(_, _)
NumbersFrom(text, i) ==
    IF i > Len(text) THEN << >>
    ELSE (IF i \in ItemStarts(text)
          THEN <<CASE text[i] = "1. " -> "1" [] text[i] = "2. " -> "2" [] OTHER -> text[i]>>
          ELSE << >>) \o NumbersFrom(text, i + 1)

ItemNumbers(text) == NumbersFrom(text, 1)

\* C30: a prayer section that _generate_prayer_section built without an
\* override numbers its items 1, 2, ..., n: no number is repeated or
\* skipped, whatever the document type, the domains and the recommendations.
C30_PrayerNumberedConsecutively ==
    (/\ pc \in {"generated", "filled", "returned"}
     /\ "prayer" \in DOMAIN document_sections
     /\ ~Truthy(InfoGet(InfoOf(args.additional_info), "prayer")))
        => LET numbers == ItemNumbers(document_sections["prayer"])
           IN  /\ Len(numbers) >= 1
               /\ numbers = [n \in 1..Len(numbers) |-> ToString(n)]

=============================================================================
